---- MODULE Spec2Model ----
(***************************************************************************)
(* A model of the Kalshi college-basketball trading bot: the position      *)
(* controller (bot/executor.py), the signal engine (bot/strategy.py) and   *)
(* the fair-value model (bot/model.py).                                    *)
(*                                                                         *)
(* Conventions.                                                            *)
(*  - A ticker "SERIES-EVENT-TEAM" is the sequence of its '-' segments.    *)
(*  - time.time() is the integer `now` (seconds); a handler runs at one    *)
(*    instant.  The epoch clock is far larger than every interval of the   *)
(*    program, so `now` starts at StartTime, larger than all of them.      *)
(*  - A percentage return (a Python float) is carried exactly, as the      *)
(*    integer numerator 100 * cents over the position's entry_price; a     *)
(*    value rounded with round(x, 1) is carried in tenths of a percent.    *)
(*  - None is the empty sequence, a present value v is <<v>>.              *)
(***************************************************************************)
EXTENDS Integers, Sequences, FiniteSets, TLC

\* ------------------------------------------------------------------------
\* Execution parameters (bot/executor.py)
\* ------------------------------------------------------------------------
TARGET_BANKROLL_PCT == 10
MIN_ENTRY_PRICE == 25
MAX_COST_CENTS == 75
MIN_SIGNAL_STRENGTH == 5
MAX_POSITIONS == 5
MIN_EDGE == 6
MAX_EDGE == 18
MIN_MINUTES_REMAINING == 8
ORDER_TIMEOUT == 45
FILL_CHECK_INTERVAL == 15
TICKER_COOLDOWN == 120
GAME_COOLDOWN == 300
MAX_LOSS_PER_CONTRACT == 8
ALLOWED_SERIES == "KXNCAAMBGAME"

DEFAULT_EXITS ==
    [stop_loss_pct |-> 15, take_profit_pct |-> 15, trailing_stop_pct |-> 5,
     trailing_activate_pct |-> 8, time_exit |-> 300, edge_exit |-> -1]

None == <<>>
Some(v) == <<v>>

\* ------------------------------------------------------------------------
\* Arithmetic helpers
\* ------------------------------------------------------------------------
Max(a, b) == IF a >= b THEN a ELSE b
Min(a, b) == IF a <= b THEN a ELSE b
Abs(a) == IF a >= 0 THEN a ELSE -a

\* floor(n / d) for d > 0 and any integer n.
FloorDiv(n, d) == IF n >= 0 THEN n \div d ELSE -(((-n) + d - 1) \div d)

\* Python's round(n / d) for d > 0: to the nearest integer, ties to even.
RoundHalfEven(n, d) ==
    LET f == FloorDiv(n, d)
        r == n - f * d
    IN  IF 2 * r > d THEN f + 1
        ELSE IF 2 * r < d THEN f
        ELSE IF f % 2 = 0 THEN f ELSE f + 1

RECURSIVE SumSeq(_)
SumSeq(s) == IF s = <<>> THEN 0 ELSE Head(s) + SumSeq(Tail(s))

RECURSIVE MinSeq(_)
MinSeq(s) == IF Len(s) = 1 THEN s[1] ELSE Min(Head(s), MinSeq(Tail(s)))

\* s[-n:]
LastN(s, n) == IF Len(s) <= n THEN s ELSE SubSeq(s, Len(s) - n + 1, Len(s))

\* ------------------------------------------------------------------------
\* Tickers
\* ------------------------------------------------------------------------
\* _extract_game_event: ticker.rsplit("-", 1)[0], the ticker itself if it
\* has no '-'.
ExtractGameEvent(ticker) ==
    IF Len(ticker) >= 2 THEN SubSeq(ticker, 1, Len(ticker) - 1) ELSE ticker

\* ticker.startswith(ALLOWED_SERIES).  Of the scanned series (NCAAB_SERIES
\* of bot/market_scanner.py) only ALLOWED_SERIES itself has it as a prefix.
StartsWithAllowedSeries(ticker) == ticker[1] = ALLOWED_SERIES

\* ------------------------------------------------------------------------
\* State
\* ------------------------------------------------------------------------
VARIABLES
    now,                 \* time.time()
    client,              \* Executor.client is not None
    positions,           \* Executor.positions, in the dict's insertion order
    recent_tickers,      \* Executor.recent_tickers (absent key = 0)
    recent_events,       \* Executor.recent_events (absent key = 0)
    known_kalshi_tickers,\* Executor._known_kalshi_tickers
    bankroll,            \* Executor._bankroll
    bankroll_ts,         \* Executor._bankroll_ts
    target_position,     \* Executor._target_position
    exits,               \* Executor.exits, the active ExitParameterSet
    tuned_file,          \* data/learning/tuned_exits.json: None or <<exits>>
    closed_trades,       \* Executor.closed_trades
    total_pnl,           \* Executor.total_pnl
    total_invested,      \* Executor.total_invested
    trade_count,         \* Executor.trade_count
    signals,             \* StrategyEngine.signals
    price_history,       \* StrategyEngine.price_history: ticker -> snapshots
    game_states,         \* StrategyEngine.game_states: espn_id -> snapshots
    edge_history,        \* StrategyEngine.edge_history: ticker -> (ts, fv, price, edge)
    last_signal_ts,      \* StrategyEngine.last_signal_ts: (strategy, ticker) -> ts
    strategy_stats,      \* StrategyEngine.strategy_stats
    prev_prices,         \* StrategyEngine.prev_prices
    model_args,          \* the arguments of a call of the fair-value model
    model_value,         \* what the call returned: None until it has
    sigma,               \* model.SIGMA, the global the fair-value functions read
    venue_calls,         \* the order calls the last handler made on the client
    orch,                \* the Orchestrator: its fields and where run() stands
    learning             \* data/learning and the runs of run_session_analysis

execVars == <<client, positions, recent_tickers, recent_events, known_kalshi_tickers,
              bankroll, bankroll_ts, target_position, exits, tuned_file, closed_trades,
              total_pnl, total_invested, trade_count>>

engineVars == <<signals, price_history, game_states, edge_history, last_signal_ts,
                strategy_stats, prev_prices>>

modelVars == <<model_args, model_value, sigma>>

venueVars == <<venue_calls>>

\* The order calls of a handler's run.  signal: the signal on_signal called
\* create_order for (None for a run that did not); fills: the tickers get_fills
\* reported to the run ({} when it was not called or raised); orders: the
\* create_order and cancel_order calls in the order they were made, each
\* with what it was called for and whether it returned (ok) or raised.
NoCalls == [handler |-> "none", signal |-> <<>>, fills |-> {}, orders |-> <<>>]

orchVars == <<orch>>

learnVars == <<learning>>

vars == <<now, execVars, engineVars, modelVars, venueVars, orchVars, learnVars>>

\* ------------------------------------------------------------------------
\* Python dicts: functions with a growing domain
\* ------------------------------------------------------------------------
EmptyDict == <<>>
Get(d, k, default) == IF k \in DOMAIN d THEN d[k] ELSE default
Put(d, k, v) == [x \in (DOMAIN d) \cup {k} |-> IF x = k THEN v ELSE d[x]]

\* self.positions is a dict ticker -> Position; its iteration order is the
\* insertion order, which check_positions follows.  It is the sequence of
\* its values; a ticker occurs at most once in it, as a key does in a dict.
PositionTickers == {positions[i].ticker : i \in 1..Len(positions)}
HasPosition(ticker) == ticker \in PositionTickers
PositionOf(ticker) == positions[CHOOSE i \in 1..Len(positions) : positions[i].ticker = ticker]

\* self.positions[ticker] = pos
SetPosition(ps, pos) ==
    IF \E i \in 1..Len(ps) : ps[i].ticker = pos.ticker
    THEN [i \in 1..Len(ps) |-> IF ps[i].ticker = pos.ticker THEN pos ELSE ps[i]]
    ELSE Append(ps, pos)

\* ------------------------------------------------------------------------
\* Position.__init__
\* ------------------------------------------------------------------------
\* A faulty constructor: the capital committed counts one contract only.
PositionOneContract(ticker, side, entry_price, contracts, order_id, signal) ==
    [ticker |-> ticker,
     side |-> side,
     entry_price |-> entry_price,
     contracts |-> contracts,
     total_cost |-> entry_price,
     order_id |-> order_id,
     signal |-> signal,
     strategy |-> signal.strategy,
     entry_time |-> now,
     filled |-> FALSE,
     fill_price |-> None,
     exit_reason |-> "none",
     last_model_fv |-> signal.model_fv,
     last_edge |-> signal.edge,
     last_fill_check |-> 0,
     edge_updates |-> 0,
     game_event |-> ExtractGameEvent(ticker),
     peak_pnl_pct |-> 0,
     pnl_trajectory |-> <<>>]

Position(ticker, side, entry_price, contracts, order_id, signal) ==
    [ticker |-> ticker,
     side |-> side,
     entry_price |-> entry_price,
     contracts |-> contracts,
     total_cost |-> entry_price * contracts,
     order_id |-> order_id,
     signal |-> signal,
     strategy |-> signal.strategy,
     entry_time |-> now,
     filled |-> FALSE,
     fill_price |-> None,
     exit_reason |-> "none",
     last_model_fv |-> signal.model_fv,
     last_edge |-> signal.edge,
     last_fill_check |-> 0,
     edge_updates |-> 0,
     game_event |-> ExtractGameEvent(ticker),
     peak_pnl_pct |-> 0,        \* numerator over entry_price
     pnl_trajectory |-> <<>>]   \* tenths of a percent

\* ------------------------------------------------------------------------
\* _calc_contracts
\* ------------------------------------------------------------------------
CalcContracts(price_cents, target_cents) ==
    IF price_cents <= 0 \/ target_cents <= 0 THEN 1
    ELSE Min(Max(1, RoundHalfEven(target_cents, price_cents)), 5)

\* ------------------------------------------------------------------------
\* _load_tuned_exits / _save_tuned_exits
\* ------------------------------------------------------------------------
\* {**DEFAULT_EXITS, **tuned["exits"]}: the file written by _save_tuned_exits
\* holds a whole parameter set, which overrides every default.
LoadTunedExits(file) == IF file = None THEN DEFAULT_EXITS ELSE file[1]

\* A faulty save: the file is written with the defaults.
SaveTunedExitsStale(new_exits) == Some(DEFAULT_EXITS)

\* _save_tuned_exits: the file holds the set (and the time and the reason).
SaveTunedExits(new_exits) == Some(new_exits)

\* ------------------------------------------------------------------------
\* Executor._refresh_bankroll
\* ------------------------------------------------------------------------
\* bal: the venue's get_balance answer, None when the call raises.
\* The result holds the three fields.
TargetPosition(balance) ==
    Min(Max(30, RoundHalfEven(balance * TARGET_BANKROLL_PCT, 100)), 150)

RefreshBankroll(bal) ==
    LET same == [bankroll |-> bankroll, bankroll_ts |-> bankroll_ts,
                 target_position |-> target_position]
    IN  IF ~client THEN same
        ELSE IF now - bankroll_ts < 60 THEN same
        ELSE IF bal = None THEN same
        ELSE [bankroll |-> bal[1], bankroll_ts |-> now,
              target_position |-> TargetPosition(bal[1])]

\* ------------------------------------------------------------------------
\* Executor.on_signal: the admission gates, in the code's order
\* ------------------------------------------------------------------------
WeakSignal(signal) == signal.strength < MIN_SIGNAL_STRENGTH \/ signal.edge < MIN_EDGE
\* A faulty ceiling: no edge is too large.
EdgeTooLargeNever(signal) == FALSE

EdgeTooLarge(signal) == signal.edge > MAX_EDGE
TooLate(signal) == signal.minutes_remaining < MIN_MINUTES_REMAINING * 10
\* A faulty cap: off by one.
AtPositionCapOffByOne == Len(positions) > MAX_POSITIONS

AtPositionCap == Len(positions) >= MAX_POSITIONS
DuplicateTicker(ticker) == HasPosition(ticker) \/ ticker \in known_kalshi_tickers
GamePositions(game_event) ==
    Cardinality({i \in 1..Len(positions) : positions[i].game_event = game_event})
\* A faulty event guard: it never finds a position on the event.
EventHasPositionNever(game_event) == FALSE

EventHasPosition(game_event) == GamePositions(game_event) >= 1
TickerCoolingDown(ticker) == now - Get(recent_tickers, ticker, 0) < TICKER_COOLDOWN
EventCoolingDown(game_event) == now - Get(recent_events, game_event, 0) < GAME_COOLDOWN
PriceOutOfRange(signal) ==
    \/ signal.market_price = None
    \/ signal.market_price[1] < MIN_ENTRY_PRICE
    \/ signal.market_price[1] > 100 - MIN_ENTRY_PRICE
UnitPrice(signal) ==
    IF signal.side = "yes"
    THEN Min(signal.market_price[1] + 1, MAX_COST_CENTS)
    ELSE Min(100 - signal.market_price[1] + 1, MAX_COST_CENTS)
UnitPriceOutOfRange(signal) ==
    UnitPrice(signal) > MAX_COST_CENTS \/ UnitPrice(signal) < MIN_ENTRY_PRICE
EdgeBelowFees(signal) == signal.edge - 2 < 1

\* Every gate before sizing passes.
PassesGates(signal) ==
    /\ client
    /\ ~WeakSignal(signal)
    /\ ~EdgeTooLarge(signal)
    /\ ~TooLate(signal)
    /\ StartsWithAllowedSeries(signal.ticker)
    /\ ~AtPositionCap
    /\ ~DuplicateTicker(signal.ticker)
    /\ ~EventHasPosition(ExtractGameEvent(signal.ticker))
    /\ ~TickerCoolingDown(signal.ticker)
    /\ ~EventCoolingDown(ExtractGameEvent(signal.ticker))
    /\ ~PriceOutOfRange(signal)
    /\ ~UnitPriceOutOfRange(signal)
    /\ ~EdgeBelowFees(signal)

CurrentExposure == SumSeq([i \in 1..Len(positions) |-> positions[i].total_cost])

\* current_exposure + new_exposure > max_exposure, with
\* max_exposure = bankroll * 0.60 if bankroll > 0 else 500.
OverExposure(new_exposure, bank) ==
    IF bank > 0
    THEN 10 * (CurrentExposure + new_exposure) > 6 * bank
    ELSE CurrentExposure + new_exposure > 500

\* A faulty _place_order: the position is kept although create_order raised.
OnSignalKeepsFailedOrder(signal, bal, order) ==
    LET b == RefreshBankroll(bal)
        unit_price == UnitPrice(signal)
        contracts == CalcContracts(unit_price, b.target_position)
        sized == PassesGates(signal)
        places == sized /\ ~OverExposure(unit_price * contracts, b.bankroll)
    IN  /\ bankroll' = IF sized THEN b.bankroll ELSE bankroll
        /\ bankroll_ts' = IF sized THEN b.bankroll_ts ELSE bankroll_ts
        /\ target_position' = IF sized THEN b.target_position ELSE target_position
        /\ positions' =
             IF places
             THEN SetPosition(positions,
                              Position(signal.ticker, signal.side, unit_price, contracts,
                                       IF order # None THEN order[1] ELSE <<"unknown">>,
                                       signal))
             ELSE positions
        /\ UNCHANGED <<now, client, recent_tickers, recent_events, known_kalshi_tickers,
                       exits, tuned_file, closed_trades, total_pnl, total_invested,
                       trade_count>>

\* bal: get_balance's answer (None: raises); order: create_order's answer,
\* None when it raises, else <<order_id>>.
OnSignal(signal, bal, order) ==
    LET b == RefreshBankroll(bal)
        unit_price == UnitPrice(signal)
        contracts == CalcContracts(unit_price, b.target_position)
        sized == PassesGates(signal)
        places == sized /\ ~OverExposure(unit_price * contracts, b.bankroll)
    IN  /\ bankroll' = IF sized THEN b.bankroll ELSE bankroll
        /\ bankroll_ts' = IF sized THEN b.bankroll_ts ELSE bankroll_ts
        /\ target_position' = IF sized THEN b.target_position ELSE target_position
        /\ positions' =
             IF places /\ order # None
             THEN SetPosition(positions,
                              Position(signal.ticker, signal.side, unit_price, contracts,
                                       order[1], signal))
             ELSE positions
        /\ UNCHANGED <<now, client, recent_tickers, recent_events, known_kalshi_tickers,
                       exits, tuned_file, closed_trades, total_pnl, total_invested,
                       trade_count>>

\* ------------------------------------------------------------------------
\* Executor.update_model_fv
\* ------------------------------------------------------------------------
\* round(num / den, 1) in tenths, for den > 0 (ties to even).
Round1(num, den) == RoundHalfEven(10 * num, den)

\* A faulty valuation: the YES price, whatever the side held.
SideValueYesOnly(side, yes_price) == yes_price

\* The side-adjusted value of a contract at a YES price.
SideValue(side, yes_price) == IF side = "yes" THEN yes_price ELSE 100 - yes_price

UpdatedPosition(pos, model_fv, market_price) ==
    LET current == SideValue(pos.side, market_price)
        pnl_pct == IF pos.entry_price > 0
                   THEN Round1(100 * (current - pos.entry_price), pos.entry_price)
                   ELSE 0
    IN  [pos EXCEPT !.last_model_fv = model_fv,
                    !.edge_updates = @ + 1,
                    !.last_edge = IF pos.side = "yes" THEN model_fv - market_price
                                  ELSE market_price - model_fv,
                    !.pnl_trajectory = Append(@, pnl_pct)]

\* A faulty update: the position is updated whether filled or not.
UpdateModelFvUnfilled(ticker, model_fv, market_price) ==
    /\ positions' =
         IF HasPosition(ticker)
         THEN SetPosition(positions, UpdatedPosition(PositionOf(ticker), model_fv, market_price))
         ELSE positions
    /\ UNCHANGED <<now, client, recent_tickers, recent_events, known_kalshi_tickers,
                   bankroll, bankroll_ts, target_position, exits, tuned_file,
                   closed_trades, total_pnl, total_invested, trade_count>>

UpdateModelFv(ticker, model_fv, market_price) ==
    /\ positions' =
         IF HasPosition(ticker) /\ PositionOf(ticker).filled
         THEN SetPosition(positions, UpdatedPosition(PositionOf(ticker), model_fv, market_price))
         ELSE positions
    /\ UNCHANGED <<now, client, recent_tickers, recent_events, known_kalshi_tickers,
                   bankroll, bankroll_ts, target_position, exits, tuned_file,
                   closed_trades, total_pnl, total_invested, trade_count>>

\* ------------------------------------------------------------------------
\* Executor._tune_exits
\* ------------------------------------------------------------------------
\* The one-decimal values b (in tenths) whose float sum b + 3 falls below the
\* float of the exact sum, so that `last_pnl > min_pnl + 3` is true although
\* last_pnl is exactly 3 points above min_pnl (IEEE-754 doubles, b in
\* [-100.0, 300.0]).
FloatSumBelow3 ==
    {-669, -664, -659, -654, -649, -644, -347, -342, -337, -332, -327, -322,
     -186, -181, -176, -171, -166, -161, -108, -103, -98, -93, -88, -83,
     -69, -64, -59, -54, -49, -47, -44, -42, -37, -36, -32, -31, -27, -26,
     -22, -21}

\* last_pnl > min_pnl + 3 on a trade's pnl_trajectory (tenths).
Recovered(t) ==
    LET traj == t.pnl_trajectory
        min_pnl == MinSeq(traj)
        last_pnl == traj[Len(traj)]
    IN  /\ Len(traj) >= 2
        /\ \/ last_pnl > min_pnl + 30
           \/ last_pnl = min_pnl + 30 /\ min_pnl \in FloatSumBelow3

ByReason(trades, r) == SelectSeq(trades, LAMBDA t : t.exit_reason = r)
SumPnl(ts) == SumSeq([i \in 1..Len(ts) |-> ts[i].pnl_pct])
SumPeak(ts) == SumSeq([i \in 1..Len(ts) |-> ts[i].peak_pnl_pct])

\* A faulty stop-loss rule: the threshold is widened by 1, not 2.
TuneStopLossByOne(trades, ex) ==
    LET stops == ByReason(trades, "stop_loss")
        recovered == Cardinality({i \in 1..Len(stops) : Recovered(stops[i])})
    IN  IF Len(stops) >= 3 /\ 2 * recovered > Len(stops) /\ ex.stop_loss_pct < 20
        THEN [ex EXCEPT !.stop_loss_pct = Min(20, @ + 1)]
        ELSE ex

\* recovery_rate > 0.5 and stop_loss_pct < 20
TuneStopLoss(trades, ex) ==
    LET stops == ByReason(trades, "stop_loss")
        recovered == Cardinality({i \in 1..Len(stops) : Recovered(stops[i])})
    IN  IF Len(stops) >= 3 /\ 2 * recovered > Len(stops) /\ ex.stop_loss_pct < 20
        THEN [ex EXCEPT !.stop_loss_pct = Min(20, @ + 2)]
        ELSE ex

\* avg_peak > avg_exit + 5 and take_profit_pct < 30 (sums in tenths)
TuneTakeProfit(trades, ex) ==
    LET tps == ByReason(trades, "take_profit")
    IN  IF /\ Len(tps) >= 3
           /\ SumPeak(tps) > SumPnl(tps) + 50 * Len(tps)
           /\ ex.take_profit_pct < 30
        THEN [ex EXCEPT !.take_profit_pct = Min(30, @ + 3)]
        ELSE ex

\* A faulty time-exit rule: the new duration is not clamped.
TuneTimeExitUnclamped(trades, ex) ==
    LET time_exits == ByReason(trades, "time_exit")
        n == Len(time_exits)
    IN  IF n >= 3 /\ SumPnl(time_exits) > 20 * n /\ ex.time_exit < 600
        THEN [ex EXCEPT !.time_exit = @ + 60]
        ELSE IF n >= 3 /\ SumPnl(time_exits) < -30 * n /\ ex.time_exit > 120
        THEN [ex EXCEPT !.time_exit = @ - 30]
        ELSE ex

TuneTimeExit(trades, ex) ==
    LET time_exits == ByReason(trades, "time_exit")
        n == Len(time_exits)
    IN  IF n >= 3 /\ SumPnl(time_exits) > 20 * n /\ ex.time_exit < 600
        THEN [ex EXCEPT !.time_exit = Min(600, @ + 60)]
        ELSE IF n >= 3 /\ ~(SumPnl(time_exits) > 20 * n /\ ex.time_exit < 600)
                /\ SumPnl(time_exits) < -30 * n /\ ex.time_exit > 120
        THEN [ex EXCEPT !.time_exit = Max(120, @ - 30)]
        ELSE ex

\* A faulty trailing rule: the activation threshold is moved up.
TuneTrailingRaised(trades, ex) ==
    LET trails == ByReason(trades, "trailing_stop")
        tps == ByReason(trades, "take_profit")
    IN  IF /\ Len(trails) >= 2 /\ Len(tps) >= 2
           /\ SumPnl(trails) * Len(tps) > SumPnl(tps) * Len(trails)
           /\ ex.trailing_activate_pct > 4
        THEN [ex EXCEPT !.trailing_activate_pct = @ + 1]
        ELSE ex

\* avg_trail_pnl > avg_tp_pnl and trailing_activate_pct > 4
TuneTrailing(trades, ex) ==
    LET trails == ByReason(trades, "trailing_stop")
        tps == ByReason(trades, "take_profit")
    IN  IF /\ Len(trails) >= 2 /\ Len(tps) >= 2
           /\ SumPnl(trails) * Len(tps) > SumPnl(tps) * Len(trails)
           /\ ex.trailing_activate_pct > 4
        THEN [ex EXCEPT !.trailing_activate_pct = Max(4, @ - 1)]
        ELSE ex

\* A faulty pass: every closed trade is inspected, not the last 30.
TuneExitsWholeHistory(all_trades, ex) ==
    IF Len(all_trades) < 10 THEN ex
    ELSE TuneTrailing(all_trades,
           TuneTimeExit(all_trades,
             TuneTakeProfit(all_trades,
               TuneStopLoss(all_trades, ex))))

\* The parameter set _tune_exits computes from the closed trades; `changed`
\* is new_exits # ex, as every rule that fires moves its threshold.
TuneExits(all_trades, ex) ==
    LET trades == LastN(all_trades, 30)
    IN  IF Len(trades) < 10 THEN ex
        ELSE TuneTrailing(trades,
               TuneTimeExit(trades,
                 TuneTakeProfit(trades,
                   TuneStopLoss(trades, ex))))

\* Run adaptive tuning every 10 closed trades
TuningDue(all_trades) == Len(all_trades) >= 10 /\ Len(all_trades) % 5 = 0

\* ------------------------------------------------------------------------
\* Executor.check_positions: the exit rules
\* ------------------------------------------------------------------------
\* A return in percent is its numerator over entry_price: pnl_pct is
\* pnl_num / entry_price with pnl_num = 100 * pnl_per.  On the entry prices
\* on_signal admits (26..75) and the thresholds tuning can produce, the
\* float comparisons of the code agree with the exact ones, but for the
\* trailing-stop test below.

\* (entry_price, peak in cents) for which the float test
\* pnl_pct <= peak_pnl_pct - 5 is false although pnl_pct is exactly 5 points
\* below the peak (IEEE-754 doubles, entry_price in 26..75).
TrailEqualityLost ==
    {<<40, 13>>, <<40, 23>>, <<40, 24>>, <<40, 41>>, <<40, 46>>, <<40, 51>>,
     <<60, 5>>, <<60, 7>>, <<60, 10>>, <<60, 11>>, <<60, 19>>, <<60, 20>>,
     <<60, 28>>, <<60, 34>>, <<60, 36>>, <<60, 38>>, <<60, 40>>}

\* 1. pos.edge_updates >= 2 and pos.last_edge <= ex["edge_exit"]
ModelExitHolds(edge_updates, last_edge, ex) ==
    edge_updates >= 2 /\ last_edge <= ex.edge_exit

\* 2. pnl_pct >= ex["take_profit_pct"]
TakeProfitHolds(pnl_num, entry_price, ex) ==
    pnl_num >= ex.take_profit_pct * entry_price

\* A faulty trailing stop: armed from the start.
TrailingStopAlwaysArmed(peak_num, pnl_num, entry_price, ex) ==
    pnl_num <= peak_num - ex.trailing_stop_pct * entry_price

\* 3. peak_pnl_pct >= ex["trailing_activate_pct"]
\*    and pnl_pct <= peak_pnl_pct - ex["trailing_stop_pct"]
TrailingStopHolds(peak_num, pnl_num, entry_price, ex) ==
    /\ peak_num >= ex.trailing_activate_pct * entry_price
    /\ \/ pnl_num < peak_num - ex.trailing_stop_pct * entry_price
       \/ /\ pnl_num = peak_num - ex.trailing_stop_pct * entry_price
          /\ ~(ex.trailing_stop_pct = 5
               /\ <<entry_price, peak_num \div 100>> \in TrailEqualityLost)

\* 4. pnl_pct <= -ex["stop_loss_pct"] or pnl_per <= -MAX_LOSS_PER_CONTRACT
StopLossHolds(pnl_num, entry_price, ex) ==
    \/ pnl_num <= -(ex.stop_loss_pct * entry_price)
    \/ pnl_num <= -(MAX_LOSS_PER_CONTRACT * 100)

\* 5. age > ex["time_exit"]
TimeExitHolds(age, ex) == age > ex.time_exit

\* A faulty chain: the stop loss is tested before the take profit.
ExitReasonStopFirst(edge_updates, last_edge, peak_num, pnl_num, entry_price, age, ex) ==
    IF ModelExitHolds(edge_updates, last_edge, ex) THEN "model_exit"
    ELSE IF StopLossHolds(pnl_num, entry_price, ex) THEN "stop_loss"
    ELSE IF TakeProfitHolds(pnl_num, entry_price, ex) THEN "take_profit"
    ELSE IF TrailingStopHolds(peak_num, pnl_num, entry_price, ex) THEN "trailing_stop"
    ELSE IF TimeExitHolds(age, ex) THEN "time_exit"
    ELSE "none"

\* The if/elif chain: the first rule that holds, "none" when none does.
ExitReason(edge_updates, last_edge, peak_num, pnl_num, entry_price, age, ex) ==
    IF ModelExitHolds(edge_updates, last_edge, ex) THEN "model_exit"
    ELSE IF TakeProfitHolds(pnl_num, entry_price, ex) THEN "take_profit"
    ELSE IF TrailingStopHolds(peak_num, pnl_num, entry_price, ex) THEN "trailing_stop"
    ELSE IF StopLossHolds(pnl_num, entry_price, ex) THEN "stop_loss"
    ELSE IF TimeExitHolds(age, ex) THEN "time_exit"
    ELSE "none"

\* ------------------------------------------------------------------------
\* Executor._exit_position
\* ------------------------------------------------------------------------
\* The closed-trade record, with the fields the program reads back
\* (_tune_exits, get_session_stats) and the position's identity.
TradeRecord(pos, current_yes, exit_price, reason, pnl_total, pnl_num, ex) ==
    [ticker |-> pos.ticker,
     side |-> pos.side,
     entry_price |-> pos.entry_price,
     exit_price |-> exit_price,
     contracts |-> pos.contracts,
     total_cost |-> pos.total_cost,
     pnl_cents |-> pnl_total,
     pnl_pct |-> Round1(pnl_num, pos.entry_price),
     exit_reason |-> reason,
     hold_time |-> now - pos.entry_time,
     peak_pnl_pct |-> Round1(pos.peak_pnl_pct, pos.entry_price),
     peak_num |-> pos.peak_pnl_pct,     \* the peak before rounding
     current_yes |-> current_yes,       \* the YES price the cycle used
     strategy |-> pos.strategy,
     exit_params |-> ex,
     edge_at_exit |-> pos.last_edge,
     edge_updates |-> pos.edge_updates,
     pnl_trajectory |-> LastN(pos.pnl_trajectory, 10)]

\* A faulty close: the record is appended and the trade is not counted.
ExitPositionUncounted(acc, i, current_yes, exit_price, reason, pnl_total, pnl_num) ==
    LET pos == acc.positions[i]
        record == TradeRecord(pos, current_yes, exit_price, reason, pnl_total, pnl_num,
                              acc.exits)
        closed == Append(acc.closed_trades, record)
        new_exits == IF TuningDue(closed) THEN TuneExits(closed, acc.exits) ELSE acc.exits
        changed == new_exits # acc.exits
    IN  [acc EXCEPT !.positions[i].exit_reason = reason,
                    !.total_pnl = @ + pnl_total,
                    !.total_invested = @ + pos.total_cost,
                    !.closed_trades = closed,
                    !.exits = new_exits,
                    !.tuned_file = IF changed THEN SaveTunedExits(new_exits) ELSE @,
                    !.to_close = Append(@, pos.ticker)]

\* acc: the controller's fields while check_positions runs.  The closing
\* order's outcome changes nothing (its exception is caught and logged),
\* nor does cancel_order's.
ExitPosition(acc, i, current_yes, exit_price, reason, pnl_total, pnl_num) ==
    LET pos == acc.positions[i]
        record == TradeRecord(pos, current_yes, exit_price, reason, pnl_total, pnl_num,
                              acc.exits)
        closed == Append(acc.closed_trades, record)
        new_exits == IF TuningDue(closed) THEN TuneExits(closed, acc.exits) ELSE acc.exits
        changed == new_exits # acc.exits
    IN  [acc EXCEPT !.positions[i].exit_reason = reason,
                    !.total_pnl = @ + pnl_total,
                    !.total_invested = @ + pos.total_cost,
                    !.trade_count = @ + 1,
                    !.closed_trades = closed,
                    !.exits = new_exits,
                    !.tuned_file = IF changed THEN SaveTunedExits(new_exits) ELSE @,
                    !.to_close = Append(@, pos.ticker)]

\* A faulty reading of the loop's first test: no position is skipped.
AwaitingFillNever(pos) == FALSE

\* if not pos.filled: the position is only watched for its order's timeout.
AwaitingFill(pos) == ~pos.filled

\* A faulty timeout test: no order ever times out.
TimedOutNever(pos) == FALSE

\* if age > ORDER_TIMEOUT, for a position still unfilled
TimedOut(pos) == now - pos.entry_time > ORDER_TIMEOUT

\* A faulty high-water mark: the peak is the return of the cycle.
ManagePositionLastReturn(acc, i, current_prices) ==
    LET pos == acc.positions[i]
        age == now - pos.entry_time
        current_yes == Get(current_prices, pos.ticker, pos.entry_price)
        current == SideValue(pos.side, current_yes)
        pnl_per == current - pos.entry_price
        pnl_total == pnl_per * pos.contracts
        pnl_num == IF pos.entry_price > 0 THEN 100 * pnl_per ELSE 0
        reason == ExitReason(pos.edge_updates, pos.last_edge, pnl_num, pnl_num,
                             pos.entry_price, age, acc.exits)
        tracked == [acc EXCEPT !.positions[i].peak_pnl_pct = pnl_num]
    IN  IF AwaitingFill(pos)
        THEN IF TimedOut(pos)
             THEN [acc EXCEPT !.to_close = Append(@, pos.ticker)]
             ELSE acc
        ELSE IF reason = "none" THEN tracked
        ELSE ExitPosition(tracked, i, current_yes, current, reason, pnl_total, pnl_num)

\* One pass of the position-management loop over positions[i].
ManagePosition(acc, i, current_prices) ==
    LET pos == acc.positions[i]
        age == now - pos.entry_time
        current_yes == Get(current_prices, pos.ticker, pos.entry_price)
        current == SideValue(pos.side, current_yes)
        pnl_per == current - pos.entry_price
        pnl_total == pnl_per * pos.contracts
        pnl_num == IF pos.entry_price > 0 THEN 100 * pnl_per ELSE 0
        peak == IF pnl_num > pos.peak_pnl_pct THEN pnl_num ELSE pos.peak_pnl_pct
        reason == ExitReason(pos.edge_updates, pos.last_edge, peak, pnl_num,
                             pos.entry_price, age, acc.exits)
        tracked == [acc EXCEPT !.positions[i].peak_pnl_pct = peak]
    IN  IF AwaitingFill(pos)
        THEN IF TimedOut(pos)
             THEN [acc EXCEPT !.to_close = Append(@, pos.ticker)]
             ELSE acc
        ELSE IF reason = "none" THEN tracked
        ELSE ExitPosition(tracked, i, current_yes, current, reason, pnl_total, pnl_num)

RECURSIVE ManageFrom(_, _, _)
ManageFrom(acc, i, current_prices) ==
    IF i > Len(acc.positions) THEN acc
    ELSE ManageFrom(ManagePosition(acc, i, current_prices), i + 1, current_prices)

\* Fill detection (batch, throttled).  fills: get_fills' answer, None when
\* it raises, else <<the set of tickers among the fills>>.
ShouldCheckFills ==
    \E i \in 1..Len(positions) :
        ~positions[i].filled /\ now - positions[i].last_fill_check >= FILL_CHECK_INTERVAL

DetectFills(fills) ==
    IF ShouldCheckFills /\ fills # None
    THEN [i \in 1..Len(positions) |->
            IF positions[i].filled THEN positions[i]
            ELSE IF positions[i].ticker \in fills[1]
                 THEN [positions[i] EXCEPT !.last_fill_check = now,
                                           !.filled = TRUE,
                                           !.fill_price = Some(positions[i].entry_price)]
                 ELSE [positions[i] EXCEPT !.last_fill_check = now]]
    ELSE positions

\* for t in to_close: the cooldown stamps
RECURSIVE StampTickers(_, _)
StampTickers(d, to_close) ==
    IF to_close = <<>> THEN d
    ELSE StampTickers(Put(d, Head(to_close), now), Tail(to_close))

\* A faulty stamp: a stop loss cools the game off no longer than any close.
RECURSIVE StampEventsNoExtension(_, _, _)
StampEventsNoExtension(d, to_close, ps) ==
    IF to_close = <<>> THEN d
    ELSE StampEventsNoExtension(Put(d, ExtractGameEvent(Head(to_close)), now),
                                Tail(to_close), ps)

RECURSIVE StampEvents(_, _, _)
StampEvents(d, to_close, ps) ==
    IF to_close = <<>> THEN d
    ELSE LET t == Head(to_close)
             pos == ps[CHOOSE i \in 1..Len(ps) : ps[i].ticker = t]
             stamp == IF pos.exit_reason = "stop_loss" THEN now + 300 ELSE now
         IN  StampEvents(Put(d, ExtractGameEvent(t), stamp), Tail(to_close), ps)

\* The controller after fill detection and the management loop, before
\* the closed positions are stamped and deleted.
LoopStart(fills) ==
    [positions |-> DetectFills(fills), exits |-> exits, tuned_file |-> tuned_file,
     closed_trades |-> closed_trades, total_pnl |-> total_pnl,
     total_invested |-> total_invested, trade_count |-> trade_count, to_close |-> <<>>]

Managed(current_prices, fills) == ManageFrom(LoopStart(fills), 1, current_prices)

\* The management loop up to its first exit: the fields after that pass and
\* the index of the position (0: the loop ends without an exit).
RECURSIVE ManageUntilExit(_, _, _)
ManageUntilExit(acc, i, current_prices) ==
    IF i > Len(acc.positions) THEN [acc |-> acc, at |-> 0]
    ELSE LET next == ManagePosition(acc, i, current_prices)
         IN  IF Len(next.closed_trades) > Len(acc.closed_trades)
             THEN [acc |-> next, at |-> i]
             ELSE ManageUntilExit(next, i + 1, current_prices)

\* check_positions left by an exception of _exit_position's first log_trade
\* (appended = FALSE) or log_event (appended = TRUE) call: the closing order
\* is sent, the position carries its exit and the totals count it, and the
\* record is in closed_trades only if the append was reached; tuning, the
\* cooldown stamps and the deletions are not.  Orders cancelled earlier in
\* the loop stay in the live set too.
CheckPositionsRaises(current_prices, fills, appended) ==
    LET run == ManageUntilExit(LoopStart(fills), 1, current_prices)
    IN  /\ positions # <<>>
        /\ run.at > 0
        /\ positions' = run.acc.positions
        /\ total_pnl' = run.acc.total_pnl
        /\ total_invested' = run.acc.total_invested
        /\ trade_count' = run.acc.trade_count
        /\ closed_trades' = IF appended THEN run.acc.closed_trades ELSE closed_trades
        /\ UNCHANGED <<now, client, recent_tickers, recent_events, known_kalshi_tickers,
                       bankroll, bankroll_ts, target_position, exits, tuned_file>>

\* A faulty clean-up: the closed positions stay in the live set.
RemainingAll(ps, to_close) == ps

\* for t in to_close: del self.positions[t]
Remaining(ps, to_close) ==
    SelectSeq(ps, LAMBDA p : p.ticker \notin {to_close[k] : k \in 1..Len(to_close)})

CheckPositions(current_prices, fills) ==
    LET acc == Managed(current_prices, fills)
    IN  /\ positions # <<>>
        /\ positions' = Remaining(acc.positions, acc.to_close)
        /\ recent_tickers' = StampTickers(recent_tickers, acc.to_close)
        /\ recent_events' = StampEvents(recent_events, acc.to_close, acc.positions)
        /\ exits' = acc.exits
        /\ tuned_file' = acc.tuned_file
        /\ closed_trades' = acc.closed_trades
        /\ total_pnl' = acc.total_pnl
        /\ total_invested' = acc.total_invested
        /\ trade_count' = acc.trade_count
        /\ UNCHANGED <<now, client, known_kalshi_tickers, bankroll, bankroll_ts,
                       target_position>>

\* ------------------------------------------------------------------------
\* The fair-value model (bot/model.py)
\* ------------------------------------------------------------------------
\* Units.  minutes_remaining is in tenths of a minute, pregame_spread in
\* half points, a lead in points.  A probability (a Python float) is an
\* integer number of 1e-7, a z-score an integer number of 1e-5.  The result
\* of fair_value_cents computed this way equals the float result on every
\* input the specifications draw; over leads -40..40, every tenth of a minute
\* up to 40.0 and spreads -20..20 it differs (by one cent) on 140 of
\* 2,656,800 inputs, where probability * 100 lies within 4e-4 of a half.
GAME_LENGTH_MIN == 40
SIGMA == 12
HOME_ADVANTAGE == 7          \* half points: 3.5

\* 1.0 as a probability.
One == 10000000

\* The effective lead is carried in 1/16000 of a point: half points, times
\* the 400 tenths of a minute of a game, times twentieths of dampen.
LeadUnit == 2 * (10 * GAME_LENGTH_MIN) * 20

\* floor(sqrt(n)) for lo <= floor(sqrt(n)) <= hi.
RECURSIVE ISqrtBetween(_, _, _)
ISqrtBetween(n, lo, hi) ==
    IF lo >= hi THEN lo
    ELSE LET mid == (lo + hi + 1) \div 2
         IN  IF mid * mid <= n THEN ISqrtBetween(n, mid, hi)
             ELSE ISqrtBetween(n, lo, mid - 1)

\* floor(10^4 * sqrt(m)): three decimals by search, the fourth from the
\* remainder.
Sqrt4(m) ==
    LET n == m * 1000000
        s == ISqrtBetween(n, 0, 46340)
        r == n - s * s
        d == CHOOSE x \in 0..9 :
                 /\ 20 * s * x + x * x <= 100 * r
                 /\ x = 9 \/ 20 * s * (x + 1) + (x + 1) * (x + 1) > 100 * r
    IN  10 * s + d

\* The first k decimals of r / d, for 0 <= r < d.
RECURSIVE Decimals(_, _, _)
Decimals(r, d, k) ==
    IF k = 0 THEN 0
    ELSE ((r * 10) \div d) * (10 ^ (k - 1)) + Decimals((r * 10) % d, d, k - 1)

\* scipy.stats.norm.cdf at 0.00, 0.01 .. 4.00.
NormCdfTable ==
    <<
      5000000, 5039894, 5079783, 5119665, 5159534, 5199388, 5239222, 5279032,
      5318814, 5358564, 5398278, 5437953, 5477584, 5517168, 5556700, 5596177,
      5635595, 5674949, 5714237, 5753454, 5792597, 5831662, 5870644, 5909541,
      5948349, 5987063, 6025681, 6064199, 6102612, 6140919, 6179114, 6217195,
      6255158, 6293000, 6330717, 6368307, 6405764, 6443088, 6480273, 6517317,
      6554217, 6590970, 6627573, 6664022, 6700314, 6736448, 6772419, 6808225,
      6843863, 6879331, 6914625, 6949743, 6984682, 7019440, 7054015, 7088403,
      7122603, 7156612, 7190427, 7224047, 7257469, 7290691, 7323711, 7356527,
      7389137, 7421539, 7453731, 7485711, 7517478, 7549029, 7580363, 7611479,
      7642375, 7673049, 7703500, 7733726, 7763727, 7793501, 7823046, 7852361,
      7881446, 7910299, 7938919, 7967306, 7995458, 8023375, 8051055, 8078498,
      8105703, 8132671, 8159399, 8185887, 8212136, 8238145, 8263912, 8289439,
      8314724, 8339768, 8364569, 8389129, 8413447, 8437524, 8461358, 8484950,
      8508300, 8531409, 8554277, 8576903, 8599289, 8621434, 8643339, 8665005,
      8686431, 8707619, 8728568, 8749281, 8769756, 8789995, 8809999, 8829768,
      8849303, 8868606, 8887676, 8906514, 8925123, 8943502, 8961653, 8979577,
      8997274, 9014747, 9031995, 9049021, 9065825, 9082409, 9098773, 9114920,
      9130850, 9146565, 9162067, 9177356, 9192433, 9207302, 9221962, 9236415,
      9250663, 9264707, 9278550, 9292191, 9305634, 9318879, 9331928, 9344783,
      9357445, 9369916, 9382198, 9394292, 9406201, 9417924, 9429466, 9440826,
      9452007, 9463011, 9473839, 9484493, 9494974, 9505285, 9515428, 9525403,
      9535213, 9544860, 9554345, 9563671, 9572838, 9581849, 9590705, 9599408,
      9607961, 9616364, 9624620, 9632730, 9640697, 9648521, 9656205, 9663750,
      9671159, 9678432, 9685572, 9692581, 9699460, 9706210, 9712834, 9719334,
      9725711, 9731966, 9738102, 9744119, 9750021, 9755808, 9761482, 9767045,
      9772499, 9777844, 9783083, 9788217, 9793248, 9798178, 9803007, 9807738,
      9812372, 9816911, 9821356, 9825708, 9829970, 9834142, 9838226, 9842224,
      9846137, 9849966, 9853713, 9857379, 9860966, 9864474, 9867906, 9871263,
      9874545, 9877755, 9880894, 9883962, 9886962, 9889893, 9892759, 9895559,
      9898296, 9900969, 9903581, 9906133, 9908625, 9911060, 9913437, 9915758,
      9918025, 9920237, 9922397, 9924506, 9926564, 9928572, 9930531, 9932443,
      9934309, 9936128, 9937903, 9939634, 9941323, 9942969, 9944574, 9946139,
      9947664, 9949151, 9950600, 9952012, 9953388, 9954729, 9956035, 9957308,
      9958547, 9959754, 9960930, 9962074, 9963189, 9964274, 9965330, 9966358,
      9967359, 9968333, 9969280, 9970202, 9971099, 9971972, 9972821, 9973646,
      9974449, 9975229, 9975988, 9976726, 9977443, 9978140, 9978818, 9979476,
      9980116, 9980738, 9981342, 9981929, 9982498, 9983052, 9983589, 9984111,
      9984618, 9985110, 9985588, 9986051, 9986501, 9986938, 9987361, 9987772,
      9988171, 9988558, 9988933, 9989297, 9989650, 9989992, 9990324, 9990646,
      9990957, 9991260, 9991553, 9991836, 9992112, 9992378, 9992636, 9992886,
      9993129, 9993363, 9993590, 9993810, 9994024, 9994230, 9994429, 9994623,
      9994810, 9994991, 9995166, 9995335, 9995499, 9995658, 9995811, 9995959,
      9996103, 9996242, 9996376, 9996505, 9996631, 9996752, 9996869, 9996982,
      9997091, 9997197, 9997299, 9997398, 9997493, 9997585, 9997674, 9997759,
      9997842, 9997922, 9997999, 9998074, 9998146, 9998215, 9998282, 9998347,
      9998409, 9998469, 9998527, 9998583, 9998637, 9998689, 9998739, 9998787,
      9998834, 9998879, 9998922, 9998964, 9999004, 9999043, 9999080, 9999116,
      9999150, 9999184, 9999216, 9999247, 9999277, 9999305, 9999333, 9999359,
      9999385, 9999409, 9999433, 9999456, 9999478, 9999499, 9999519, 9999539,
      9999557, 9999575, 9999593, 9999609, 9999625, 9999641, 9999655, 9999670,
      9999683
    >>

\* A norm.cdf that forgets the sign of z.
NormCdfFolded(z) ==
    LET a == Abs(z)
    IN  IF a >= 400000 THEN NormCdfTable[401]
        ELSE NormCdfTable[a \div 1000 + 1]

\* norm.cdf(z): the table, interpolated linearly between its points (the
\* probability is within 8e-6 of the float) and held at its last point,
\* 0.9999683, from z = 4 on.
NormCdf(z) ==
    LET a == Abs(z)
        i == a \div 1000
        f == a % 1000
        p == IF a >= 400000 THEN NormCdfTable[401]
             ELSE NormCdfTable[i + 1]
                  + ((NormCdfTable[i + 2] - NormCdfTable[i + 1]) * f) \div 1000
    IN  IF z >= 0 THEN p ELSE One - p

\* A faulty dampening: the weight falls in a line to 0.5 at a spread of 8.
DampenToHalf(abs_spread) ==
    IF abs_spread <= 8 THEN 20
    ELSE IF abs_spread <= 16 THEN 20 - (5 * (abs_spread - 8)) \div 4
    ELSE 10

\* dampen, in twentieths: 1.0 up to a spread of 4, 1.0 - 0.1 * (|S| - 4) up
\* to 8, 0.5 beyond.
Dampen(abs_spread) ==
    IF abs_spread <= 8 THEN 20
    ELSE IF abs_spread <= 16 THEN 20 - (abs_spread - 8)
    ELSE 10

\* margin = pregame_spread * t_frac * dampen, or the home-court advantage
\* for the time left when there is no pregame spread (in LeadUnit).
Margin(minutes_remaining, home, pregame_spread) ==
    IF pregame_spread # 0
    THEN pregame_spread * minutes_remaining * Dampen(Abs(pregame_spread))
    ELSE IF home THEN HOME_ADVANTAGE * minutes_remaining * 20
    ELSE -(HOME_ADVANTAGE * minutes_remaining * 20)

\* effective_lead = lead + margin (in LeadUnit).
EffectiveLead(lead, minutes_remaining, home, pregame_spread) ==
    LeadUnit * lead + Margin(minutes_remaining, home, pregame_spread)

\* z = effective_lead / sigma_remaining with sigma_remaining =
\* SIGMA * sqrt(t_frac) = SIGMA * sqrt(minutes_remaining) / 20, which is
\* effective_lead * 100 / (8 * SIGMA * Sqrt4) in these units; cut at 40.
ZScore(effective_lead, minutes_remaining) ==
    LET d == 8 * sigma * Sqrt4(minutes_remaining)
        n == Abs(effective_lead) * 100
        q == n \div d
        z == IF q >= 40 THEN 4000000
             ELSE q * 100000 + Decimals(n % d, d, 5)
    IN  IF effective_lead >= 0 THEN z ELSE -z

\* win_probability.  sigma_remaining < 0.01 needs less than 0.00003 minutes
\* on the clock, which no tenth of a minute is: that branch is not taken.
WinProbability(lead, minutes_remaining, home, pregame_spread) ==
    IF minutes_remaining <= 0
    THEN IF lead > 0 THEN One ELSE IF lead < 0 THEN 0 ELSE One \div 2
    ELSE NormCdf(ZScore(EffectiveLead(lead, minutes_remaining, home, pregame_spread),
                        minutes_remaining))

\* fair_value_cents without the clamp.
FairValueCentsUnclamped(lead, minutes_remaining, home, pregame_spread) ==
    RoundHalfEven(WinProbability(lead, minutes_remaining, home, pregame_spread), One \div 100)

\* fair_value_cents: max(1, min(99, round(p * 100))).
FairValueCents(lead, minutes_remaining, home, pregame_spread) ==
    Max(1, Min(99, RoundHalfEven(
        WinProbability(lead, minutes_remaining, home, pregame_spread), One \div 100)))

\* delta_per_point (home is left at its default, True).
DeltaPerPoint(lead, minutes_remaining, pregame_spread) ==
    WinProbability(lead + 1, minutes_remaining, TRUE, pregame_spread)
    - WinProbability(lead, minutes_remaining, TRUE, pregame_spread)

\* ------------------------------------------------------------------------
\* The signal engine (bot/strategy.py)
\* ------------------------------------------------------------------------
\* Cooldowns: min seconds between signals for the same (strategy, ticker).
COOLDOWNS ==
    [mean_reversion |-> 300, momentum |-> 120, halftime_edge |-> 600,
     gamma_scalp |-> 60, spread_capture |-> 180, stale_line |-> 90,
     closing_line |-> 45]

\* Python's `a or b` on prices: None and 0 are both false, and a market
\* field that is absent or None is carried as 0.
Or(a, b) == IF a # 0 THEN a ELSE b

\* StrategyEngine.__init__
NewStrategyEngine ==
    [signals |-> <<>>, price_history |-> EmptyDict, game_states |-> EmptyDict,
     edge_history |-> EmptyDict, last_signal_ts |-> EmptyDict,
     strategy_stats |-> EmptyDict, prev_prices |-> EmptyDict]

\* The engine of the current state.
StrategyEngine ==
    [signals |-> signals, price_history |-> price_history, game_states |-> game_states,
     edge_history |-> edge_history, last_signal_ts |-> last_signal_ts,
     strategy_stats |-> strategy_stats, prev_prices |-> prev_prices]

\* StrategySignal.__init__: ts is the time of construction.  The reason text
\* is left out.
StrategySignal(t, strategy, ticker, side, strength, edge, market_price, model_fv, ctx) ==
    [ts |-> t, strategy |-> strategy, ticker |-> ticker, side |-> side,
     strength |-> strength, edge |-> edge, market_price |-> market_price,
     model_fv |-> model_fv, game_context |-> ctx]

\* game_ctx of on_price_update (the score as its two numbers, no name).
GameContext(game) ==
    [espn_id |-> game.espn_id, home_score |-> game.home_score,
     away_score |-> game.away_score, lead |-> game.lead,
     minutes_remaining |-> game.minutes_remaining, period |-> game.period]

\* A cooldown test that never holds.
OnCooldownNever(eng, t, strategy, ticker) == FALSE

\* _on_cooldown
OnCooldown(eng, t, strategy, ticker) ==
    (t - Get(eng.last_signal_ts, <<strategy, ticker>>, 0)) < Get(COOLDOWNS, strategy, 120)

\* _emit_signal.  The line appended to data/signals/<date>.jsonl is not part
\* of the engine's state; the write is taken to succeed.
EmitSignal(eng, signal) ==
    LET stats == Get(eng.strategy_stats, signal.strategy, [signals |-> 0, total_edge |-> 0])
    IN  [eng EXCEPT
            !.last_signal_ts = Put(@, <<signal.strategy, signal.ticker>>, signal.ts),
            !.signals = Append(@, signal),
            !.strategy_stats =
                Put(@, signal.strategy,
                    [signals |-> stats.signals + 1,
                     total_edge |-> stats.total_edge + signal.edge])]

\* The seven detectors.  Each one reads the engine as on_price_update left
\* it (histories appended, prev_prices not yet updated) and its own
\* cooldown key only, so each is given as the signal it emits, if any;
\* on_price_update emits them in the order of the calls.

\* _check_mean_reversion (mean_reversion_estimate only feeds the reason).
CheckMeanReversion(eng, t, ticker, mkt, game, fv, edge, price, ctx) ==
    IF OnCooldown(eng, t, "mean_reversion", ticker) THEN None
    ELSE IF game.minutes_remaining < 50 \/ game.minutes_remaining > 350 THEN None
    ELSE IF Abs(game.lead) < 8 \/ Abs(edge) < 4 THEN None
    ELSE Some(StrategySignal(t, "mean_reversion", ticker,
                             IF edge > 0 THEN "yes" ELSE "no",
                             Min(10, Abs(edge) \div 2 + Abs(game.lead) \div 5),
                             Abs(edge), price, fv, ctx))

\* calc_run
CalcRun(window) ==
    (window[Len(window)].home_score - window[1].home_score)
    - (window[Len(window)].away_score - window[1].away_score)

\* _check_momentum
CheckMomentum(eng, t, ticker, mkt, game, fv, edge, price, ctx) ==
    LET history == Get(eng.game_states, game.espn_id, <<>>)
        n == Len(history)
        run1 == CalcRun(SubSeq(history, n - 5, n - 2))
        run2 == CalcRun(SubSeq(history, n - 3, n))
    IN  IF OnCooldown(eng, t, "momentum", ticker) THEN None
        ELSE IF n < 6 THEN None
        ELSE IF Abs(run2) < 5 \/ (run1 > 0) # (run2 > 0) THEN None
        ELSE IF run2 > 0 /\ edge > 2
        THEN Some(StrategySignal(t, "momentum", ticker, "yes", Min(8, Abs(run2)),
                                 edge, price, fv, ctx))
        ELSE IF run2 < 0 /\ edge < -2
        THEN Some(StrategySignal(t, "momentum", ticker, "no", Min(8, Abs(run2)),
                                 Abs(edge), price, fv, ctx))
        ELSE None

\* _check_halftime_edge; int(abs(edge) / 1.5) is floor(2 * |edge| / 3).
CheckHalftimeEdge(eng, t, ticker, mkt, game, fv, edge, price, ctx) ==
    LET is_late_first_half == game.period = 1 /\ game.minutes_remaining <= 20
        is_early_second_half == game.period = 2 /\ game.minutes_remaining >= 180
    IN  IF OnCooldown(eng, t, "halftime_edge", ticker) THEN None
        ELSE IF ~(is_late_first_half \/ is_early_second_half) THEN None
        ELSE IF Abs(edge) < 4 THEN None
        ELSE Some(StrategySignal(t, "halftime_edge", ticker,
                                 IF edge > 0 THEN "yes" ELSE "no",
                                 Min(10, (2 * Abs(edge)) \div 3),
                                 Abs(edge), price, fv, ctx))

\* _check_gamma_scalp
CheckGammaScalp(eng, t, ticker, mkt, game, fv, edge, price, ctx) ==
    LET delta == DeltaPerPoint(game.lead, game.minutes_remaining, 0)
    IN  IF OnCooldown(eng, t, "gamma_scalp", ticker) THEN None
        ELSE IF game.minutes_remaining > 80 \/ game.minutes_remaining < 10 THEN None
        ELSE IF Abs(delta) * 100 < 4 * One \/ Abs(game.lead) > 6 \/ Abs(edge) < 2 THEN None
        ELSE Some(StrategySignal(t, "gamma_scalp", ticker,
                                 IF edge > 0 THEN "yes" ELSE "no",
                                 Min(10, (Abs(delta) * 120) \div One),
                                 Abs(edge), price, fv, ctx))

\* _check_spread_capture
CheckSpreadCapture(eng, t, ticker, mkt, game, fv, edge, price, ctx) ==
    LET bid == Or(mkt.yes_bid, 0)
        ask == Or(mkt.yes_ask, 100)
        spread == ask - bid
        edge_to_bid == fv - bid
        edge_to_ask == ask - fv
        side == IF edge_to_bid > edge_to_ask THEN "yes" ELSE "no"
        our_edge == IF edge_to_bid > edge_to_ask THEN edge_to_bid ELSE edge_to_ask
    IN  IF OnCooldown(eng, t, "spread_capture", ticker) THEN None
        ELSE IF spread < 5 \/ spread > 25 THEN None
        ELSE IF ~(bid < fv /\ fv < ask) THEN None
        ELSE IF our_edge < 3 THEN None
        ELSE Some(StrategySignal(t, "spread_capture", ticker, side, Min(8, our_edge),
                                 our_edge, price, fv, ctx))

\* _check_stale_line; move is expected_move = |delta| * points_scored * 100
\* in 1e-5 cents.
CheckStaleLine(eng, t, ticker, mkt, game, fv, edge, price, ctx) ==
    LET history == Get(eng.game_states, game.espn_id, <<>>)
        prev_game == history[Len(history) - 1]
        prev_price == eng.prev_prices[ticker]
        points_scored == Abs((game.home_score + game.away_score)
                             - (prev_game.home_score + prev_game.away_score))
        move == Abs(DeltaPerPoint(game.lead, game.minutes_remaining, 0)) * points_scored
    IN  IF OnCooldown(eng, t, "stale_line", ticker) THEN None
        ELSE IF Len(history) < 2 THEN None
        ELSE IF prev_game.home_score = game.home_score
                /\ prev_game.away_score = game.away_score THEN None
        ELSE IF ticker \notin DOMAIN eng.prev_prices THEN None
        ELSE IF Abs(price - prev_price) > 2 THEN None
        ELSE IF move < 3 * (One \div 100) \/ Abs(edge) < 3 THEN None
        ELSE Some(StrategySignal(t, "stale_line", ticker,
                                 IF edge > 0 THEN "yes" ELSE "no",
                                 Min(9, move \div (2 * (One \div 100))),
                                 Abs(edge), price, fv, ctx))

\* _check_closing_line
CheckClosingLine(eng, t, ticker, mkt, game, fv, edge, price, ctx) ==
    IF OnCooldown(eng, t, "closing_line", ticker) THEN None
    ELSE IF game.minutes_remaining > 30 \/ game.minutes_remaining < 5 THEN None
    ELSE IF Abs(game.lead) < 3 THEN None
    ELSE IF Abs(edge) < 5 THEN None
    ELSE Some(StrategySignal(t, "closing_line", ticker,
                             IF edge > 0 THEN "yes" ELSE "no",
                             Min(10, (2 * Abs(edge)) \div 3 + 2),
                             Abs(edge), price, fv, ctx))

\* The detectors' signals go through _emit_signal one after the other.
RECURSIVE EmitAll(_, _)
EmitAll(eng, found) ==
    IF found = <<>> THEN eng
    ELSE EmitAll(IF Head(found) = None THEN eng ELSE EmitSignal(eng, Head(found)[1]),
                 Tail(found))

\* on_price_update, called at time t: the engine it leaves.
OnPriceUpdate(eng, t, ticker, mkt, game, fv, edge) ==
    LET price == Or(mkt.last_price, Or(mkt.yes_bid, 50))
        bid == Or(mkt.yes_bid, 0)
        ask == Or(mkt.yes_ask, 100)
        tracked ==
            [eng EXCEPT
                !.price_history =
                    Put(@, ticker,
                        Append(Get(@, ticker, <<>>),
                               [ts |-> t, price |-> price, bid |-> bid, ask |-> ask,
                                volume |-> mkt.volume, model_fv |-> fv, edge |-> edge])),
                !.game_states = Put(@, game.espn_id, Append(Get(@, game.espn_id, <<>>), game)),
                !.edge_history =
                    Put(@, ticker, Append(Get(@, ticker, <<>>), <<t, fv, price, edge>>))]
        ctx == GameContext(game)
        found ==
            <<CheckMeanReversion(tracked, t, ticker, mkt, game, fv, edge, price, ctx),
              CheckMomentum(tracked, t, ticker, mkt, game, fv, edge, price, ctx),
              CheckHalftimeEdge(tracked, t, ticker, mkt, game, fv, edge, price, ctx),
              CheckGammaScalp(tracked, t, ticker, mkt, game, fv, edge, price, ctx),
              CheckSpreadCapture(tracked, t, ticker, mkt, game, fv, edge, price, ctx),
              CheckStaleLine(tracked, t, ticker, mkt, game, fv, edge, price, ctx),
              CheckClosingLine(tracked, t, ticker, mkt, game, fv, edge, price, ctx)>>
    IN  [EmitAll(tracked, found) EXCEPT !.prev_prices = Put(@, ticker, price)]

\* The engine variables take the value of an engine record.
EngineBecomes(eng) ==
    /\ signals' = eng.signals
    /\ price_history' = eng.price_history
    /\ game_states' = eng.game_states
    /\ edge_history' = eng.edge_history
    /\ last_signal_ts' = eng.last_signal_ts
    /\ strategy_stats' = eng.strategy_stats
    /\ prev_prices' = eng.prev_prices

\* One feed observation of a market, as _active_cycle makes it: the fair
\* value is the model's for the home team, mirrored for the away market, and
\* the edge is taken against the last price.
HomeFv(game) ==
    FairValueCents(game.lead, game.minutes_remaining, TRUE, game.pregame_spread)

MarketFv(ticker, game) ==
    IF ticker[Len(ticker)] = game.home THEN HomeFv(game) ELSE 100 - HomeFv(game)

MarketPrice(mkt) == Or(mkt.last_price, Or(mkt.yes_bid, 50))

Observe(eng, t, ticker, mkt, game) ==
    OnPriceUpdate(eng, t, ticker, mkt, game, MarketFv(ticker, game),
                  MarketFv(ticker, game) - MarketPrice(mkt))

\* StrategyEngine.on_price_update as a step of the program.
PriceUpdate(ticker, mkt, game) ==
    /\ EngineBecomes(Observe(StrategyEngine, now, ticker, mkt, game))
    /\ UNCHANGED <<now, execVars, modelVars, venueVars, orchVars, learnVars>>

\* ------------------------------------------------------------------------
\* Executor.__init__ and the passing of time
\* ------------------------------------------------------------------------
StartTime == 1000

\* Orchestrator.__init__, before run() is called: no session, no cycle, and
\* auth_ok False until check_auth has had an answer.  pc: where run() stands;
\* feed: the signals of the cycle still to be passed to on_signal; raised:
\* the call that raised in the step just taken; interrupted: a
\* KeyboardInterrupt has been delivered; fills_asked: the get_fills calls
\* check_positions has made under run(), where a specification records them.
NewOrchestrator ==
    [auth_ok |-> FALSE, cycle_count |-> 0, session_start |-> FALSE, session_ts |-> 0,
     pc |-> "run", feed |-> <<>>, raised |-> "none", interrupted |-> FALSE,
     fills_asked |-> <<>>]

\* data/learning when the process starts, taken as empty: no run of
\* run_session_analysis yet, cumulative.json with sessions_analyzed = 0.
NewLearning ==
    [runs |-> <<>>, sessions_analyzed |-> 0, total_signals |-> 0,
     parameter_history |-> <<>>, sigma_observations |-> <<>>]

\* file: tuned_exits.json at start-up; known: the tickers get_positions
\* reports with a non-zero position (_load_existing_positions); bal: the
\* first get_balance answer (_refresh_bankroll, with _bankroll_ts = 0).
InitExecutorAt(t, file, known, bal) ==
    /\ now = t
    /\ client = TRUE
    /\ positions = <<>>
    /\ recent_tickers = [k \in known |-> t]
    /\ recent_events = [e \in {ExtractGameEvent(k) : k \in known} |-> t]
    /\ known_kalshi_tickers = known
    /\ bankroll = IF bal = None THEN 0 ELSE bal[1]
    /\ bankroll_ts = IF bal = None THEN 0 ELSE t
    /\ target_position = IF bal = None THEN 60 ELSE TargetPosition(bal[1])
    /\ exits = LoadTunedExits(file)
    /\ tuned_file = file
    /\ closed_trades = <<>>
    /\ total_pnl = 0
    /\ total_invested = 0
    /\ trade_count = 0
    /\ venue_calls = NoCalls
    /\ orch = NewOrchestrator
    /\ learning = NewLearning

InitExecutor(file, known, bal) == InitExecutorAt(StartTime, file, known, bal)

Tick(d) ==
    /\ now' = now + d
    /\ UNCHANGED execVars

\* A fresh StrategyEngine, as Orchestrator.__init__ makes it.
InitStrategyEngine ==
    /\ signals = NewStrategyEngine.signals
    /\ price_history = NewStrategyEngine.price_history
    /\ game_states = NewStrategyEngine.game_states
    /\ edge_history = NewStrategyEngine.edge_history
    /\ last_signal_ts = NewStrategyEngine.last_signal_ts
    /\ strategy_stats = NewStrategyEngine.strategy_stats
    /\ prev_prices = NewStrategyEngine.prev_prices

\* No call of the fair-value model is being looked at.
NoModelCall ==
    /\ model_args = None
    /\ model_value = None
    /\ sigma = SIGMA

\* A step of the position controller leaves the rest alone.
ExecutorOnly == UNCHANGED <<engineVars, modelVars, venueVars, orchVars, learnVars>>

\* A step of the position controller whose order calls are recorded.
OrdersOnly == UNCHANGED <<engineVars, modelVars, orchVars, learnVars>>

\* ------------------------------------------------------------------------
\* Inputs
\* ------------------------------------------------------------------------
Ticker(event, team) == <<ALLOWED_SERIES, event, team>>

\* StrategySignal.to_dict(), with the keys on_signal and Position read.
\* minutes_remaining is in tenths of a minute (the feed rounds it to 0.1).
Signal(ticker, side, strength, edge, market_price, minutes_remaining) ==
    [strategy |-> "halftime_edge", ticker |-> ticker, side |-> side, strength |-> strength,
     edge |-> edge, market_price |-> Some(market_price),
     model_fv |-> IF side = "yes" THEN market_price + edge ELSE market_price - edge,
     minutes_remaining |-> minutes_remaining]

OrderAnswers == {None, Some("order")}

\* The filled positions check_positions would evaluate, given get_fills' answer.
FilledAfter(fills) ==
    {i \in 1..Len(positions) : DetectFills(fills)[i].filled}

\* current_prices as the orchestrator builds it: the last YES price of the
\* live positions' markets, when it knows one.  At level p every live
\* contract is worth p to its holder: its YES price is p on the yes side and
\* 100 - p on the no side.
PriceMaps(levels) ==
    {EmptyDict}
    \cup {[t \in PositionTickers |->
             IF PositionOf(t).side = "yes" THEN p ELSE 100 - p] : p \in levels}

\* get_fills' answers: no fill, a fill of every live order.
FillAnswers == {Some({}), Some(PositionTickers)}

\* ------------------------------------------------------------------------
\* Spec: the life cycle of positions on two events
\* ------------------------------------------------------------------------
MaxElapsed == 310
MaxClosed == 2
MaxUpdates == 2

Signals ==
    {Signal(Ticker("G1", "HOME"), "yes", 6, 8, 39, 150),
     Signal(Ticker("G1", "AWAY"), "no", 6, 8, 61, 150),
     Signal(Ticker("G2", "HOME"), "yes", 6, 8, 39, 150)}

TickSteps == {301}
PriceLevels == {33, 42, 46}

Init == InitExecutor(None, {}, Some(2000)) /\ InitStrategyEngine /\ NoModelCall

SignalStep ==
    /\ ExecutorOnly
    /\ \E signal \in Signals, order \in OrderAnswers :
        OnSignal(signal, Some(2000), order)

ModelStep ==
    /\ ExecutorOnly
    /\ \E t \in PositionTickers :
        /\ PositionOf(t).edge_updates < MaxUpdates
        /\ UpdateModelFv(t, 38, 40)

CheckStep ==
    /\ ExecutorOnly
    /\ \E prices \in PriceMaps(PriceLevels), fills \in FillAnswers :
        /\ Len(closed_trades) + Cardinality(FilledAfter(fills)) <= MaxClosed
        /\ CheckPositions(prices, fills)

TickStep ==
    /\ ExecutorOnly
    /\ \E d \in TickSteps :
        /\ now + d <= StartTime + MaxElapsed
        /\ Tick(d)

Next == SignalStep \/ ModelStep \/ CheckStep \/ TickStep

Spec == Init /\ [][Next]_vars

\* The live position on a ticker, in a given positions value.
LiveTickers(ps) == {ps[i].ticker : i \in 1..Len(ps)}
LiveAt(ps, t) == ps[CHOOSE i \in 1..Len(ps) : ps[i].ticker = t]

\* The closed-trade records a step appends.
NewRecords == SubSeq(closed_trades', Len(closed_trades) + 1, Len(closed_trades'))
NewRecordsOf(t) == Cardinality({k \in 1..Len(NewRecords) : NewRecords[k].ticker = t})

\* C1: the live position set never holds two positions on the same contract,
\* nor two positions whose tickers belong to the same game event (the ticker
\* without its last '-' segment).
C1_OnePositionPerContractAndEvent ==
    \A i, j \in 1..Len(positions) :
        i # j =>
            /\ positions[i].ticker # positions[j].ticker
            /\ SubSeq(positions[i].ticker, 1, Len(positions[i].ticker) - 1)
                 # SubSeq(positions[j].ticker, 1, Len(positions[j].ticker) - 1)

\* A position is live on an event and a signal for the event's other contract
\* passes every other gate of on_signal: only the event guard stops it.
C1_Witness ==
    \E signal \in Signals :
        /\ ~HasPosition(signal.ticker)
        /\ \E i \in 1..Len(positions) :
              positions[i].game_event = ExtractGameEvent(signal.ticker)
        /\ ~AtPositionCap
        /\ ~TickerCoolingDown(signal.ticker)
        /\ ~EventCoolingDown(ExtractGameEvent(signal.ticker))
        /\ Len(positions) = 2

\* C5: a contract's position only moves no-position -> order-placed
\* (unfilled) -> filled -> closed, or order-placed -> no-position on timeout.
\* In every step: a position that appears is unfilled; a position that stays
\* keeps its identity, never goes from filled to unfilled, and gets no record;
\* an unfilled position is untouched by the exit rules (no record unless the
\* throttled fill check ran in this step, no peak tracking); a position that leaves
\* produces at most one closed-trade record, and none only if it was an
\* unfilled order older than ORDER_TIMEOUT; records are only appended, and
\* only for positions that leave.
C5_StateMachineStep ==
    /\ Len(closed_trades') >= Len(closed_trades)
    /\ SubSeq(closed_trades', 1, Len(closed_trades)) = closed_trades
    /\ \A k \in 1..Len(NewRecords) :
          /\ NewRecords[k].ticker \in LiveTickers(positions) \ LiveTickers(positions')
          /\ NewRecords[k].exit_reason # "none"
    /\ \A t \in LiveTickers(positions') \ LiveTickers(positions) :
          ~LiveAt(positions', t).filled
    /\ \A t \in LiveTickers(positions) :
          LET p == LiveAt(positions, t)
          IN  IF t \in LiveTickers(positions')
              THEN LET q == LiveAt(positions', t)
                   IN  /\ q.entry_time = p.entry_time
                       /\ q.order_id = p.order_id
                       /\ p.filled => q.filled
                       /\ q.exit_reason = "none"
                       /\ ~q.filled => q.peak_pnl_pct = p.peak_pnl_pct
                       /\ NewRecordsOf(t) = 0
              ELSE /\ NewRecordsOf(t) <= 1
                   /\ NewRecordsOf(t) = 0 =>
                        ~p.filled /\ now - p.entry_time > ORDER_TIMEOUT
                   /\ (NewRecordsOf(t) = 1 /\ ~p.filled) =>
                        \E i \in 1..Len(positions) :
                            /\ ~positions[i].filled
                            /\ now - positions[i].last_fill_check >= FILL_CHECK_INTERVAL

C6_CostStep ==
    /\ \A i \in 1..Len(positions') :
          positions'[i].total_cost = positions'[i].entry_price * positions'[i].contracts
    /\ \A t \in LiveTickers(positions) \cap LiveTickers(positions') :
          /\ LiveAt(positions', t).entry_price = LiveAt(positions, t).entry_price
          /\ LiveAt(positions', t).contracts = LiveAt(positions, t).contracts
          /\ LiveAt(positions', t).total_cost = LiveAt(positions, t).total_cost

C6_CostNeverChanges == [][C6_CostStep]_vars

\* A position of several contracts that has been filled, has had its model
\* value updated and its peak tracked by an exit evaluation.
C6_Witness ==
    \E i \in 1..Len(positions) :
        /\ positions[i].contracts > 1
        /\ positions[i].filled
        /\ positions[i].edge_updates >= 1
        /\ positions[i].peak_pnl_pct > 0

\* ------------------------------------------------------------------------
\* SpecCap: signals on six events against the position cap
\* ------------------------------------------------------------------------
CapMaxClosed == 1

CapEvents == {"E1", "E2", "E3", "E4", "E5", "E6"}
CapSignals == {Signal(Ticker(e, "HOME"), "yes", 6, 8, 39, 150) : e \in CapEvents}
CapPriceLevels == {46}

CapSignalStep ==
    /\ ExecutorOnly
    /\ \E signal \in CapSignals :
        OnSignal(signal, Some(2000), Some("order"))

CapCheckStep ==
    /\ ExecutorOnly
    /\ \E prices \in PriceMaps(CapPriceLevels), fills \in FillAnswers :
        /\ Len(closed_trades) + Cardinality(FilledAfter(fills)) <= CapMaxClosed
        /\ CheckPositions(prices, fills)

CapNext == CapSignalStep \/ CapCheckStep

SpecCap == Init /\ [][CapNext]_vars

\* C2: the number of live positions, filled or unfilled, never exceeds
\* MAX_POSITIONS.
C2_AtMostMaxPositions == Len(positions) <= MAX_POSITIONS

\* The cap is reached, some of the positions filled, and a signal on an
\* event without a position passes every other gate of on_signal and the
\* exposure limit: only the cap stops it.
C2_Witness ==
    /\ Len(positions) = MAX_POSITIONS
    /\ \E i \in 1..Len(positions) : positions[i].filled
    /\ \E signal \in CapSignals :
          /\ ~HasPosition(signal.ticker)
          /\ ~EventHasPosition(ExtractGameEvent(signal.ticker))
          /\ ~TickerCoolingDown(signal.ticker)
          /\ ~EventCoolingDown(ExtractGameEvent(signal.ticker))
          /\ ~OverExposure(UnitPrice(signal) * CalcContracts(UnitPrice(signal), target_position),
                           bankroll)

\* ------------------------------------------------------------------------
\* SpecExit: the exit rules on one event, a yes-side and a no-side contract
\* ------------------------------------------------------------------------
ExitMaxClosed == 2
ExitMaxElapsed == 310

\* tuned_exits.json at start-up: absent, or a file edited by hand whose
\* take-profit threshold lies below the stop-loss threshold, so that both
\* rules can hold at once (_load_tuned_exits takes any value).
ExitFiles == {None, Some([DEFAULT_EXITS EXCEPT !.take_profit_pct = -20])}

ExitSignals ==
    {Signal(Ticker("G1", "HOME"), "yes", 6, 8, 39, 150),
     Signal(Ticker("G1", "AWAY"), "no", 6, 8, 61, 150)}

ExitPriceLevels == {33, 42, 44, 46}

ExitInit ==
    /\ \E file \in ExitFiles : InitExecutor(file, {}, Some(2000))
    /\ InitStrategyEngine
    /\ NoModelCall

ExitSignalStep ==
    /\ ExecutorOnly
    /\ \E signal \in ExitSignals :
        OnSignal(signal, Some(2000), Some("order"))

\* The model's fair value two cents to either side of the market's YES price.
ExitModelStep ==
    /\ ExecutorOnly
    /\ \E t \in PositionTickers, d \in {-2, 2} :
        LET market_price == IF PositionOf(t).side = "yes" THEN 40 ELSE 60
        IN  /\ PositionOf(t).edge_updates < MaxUpdates
            /\ UpdateModelFv(t, market_price + d, market_price)

ExitCheckStep ==
    /\ ExecutorOnly
    /\ \E prices \in PriceMaps(ExitPriceLevels), fills \in FillAnswers :
        /\ Len(closed_trades) + Cardinality(FilledAfter(fills)) <= ExitMaxClosed
        /\ CheckPositions(prices, fills)

ExitTickStep ==
    /\ ExecutorOnly
    /\ \E d \in TickSteps :
        /\ now + d <= StartTime + ExitMaxElapsed
        /\ Tick(d)

ExitNext == ExitSignalStep \/ ExitModelStep \/ ExitCheckStep \/ ExitTickStep

SpecExit == ExitInit /\ [][ExitNext]_vars

\* The rule conditions of the cycle that closed a trade, from its record:
\* the return's numerator, the peak after that cycle's tracking, the age and
\* the parameter set in force.
RecordPnlNum(r) == 100 * (r.exit_price - r.entry_price)
RecordModelExit(r) == ModelExitHolds(r.edge_updates, r.edge_at_exit, r.exit_params)
RecordTakeProfit(r) == TakeProfitHolds(RecordPnlNum(r), r.entry_price, r.exit_params)
RecordTrailingStop(r) ==
    TrailingStopHolds(r.peak_num, RecordPnlNum(r), r.entry_price, r.exit_params)
RecordStopLoss(r) == StopLossHolds(RecordPnlNum(r), r.entry_price, r.exit_params)
RecordTimeExit(r) == TimeExitHolds(r.hold_time, r.exit_params)

\* C4: the exit reason recorded for a filled position is the first rule, in
\* the order model_exit, take_profit, trailing_stop, stop_loss, time_exit,
\* whose condition holds in that cycle; a position that satisfies both the
\* take-profit and the stop-loss condition is never closed as stop_loss.
C4_FirstRuleThatHolds ==
    \A k \in 1..Len(closed_trades) :
        LET r == closed_trades[k]
        IN  /\ r.exit_reason \in {"model_exit", "take_profit", "trailing_stop",
                                  "stop_loss", "time_exit"}
            /\ r.exit_reason = "model_exit" <=> RecordModelExit(r)
            /\ r.exit_reason = "take_profit" <=>
                 ~RecordModelExit(r) /\ RecordTakeProfit(r)
            /\ r.exit_reason = "trailing_stop" <=>
                 ~RecordModelExit(r) /\ ~RecordTakeProfit(r) /\ RecordTrailingStop(r)
            /\ r.exit_reason = "stop_loss" <=>
                 /\ ~RecordModelExit(r) /\ ~RecordTakeProfit(r)
                 /\ ~RecordTrailingStop(r) /\ RecordStopLoss(r)
            /\ r.exit_reason = "time_exit" <=>
                 /\ ~RecordModelExit(r) /\ ~RecordTakeProfit(r)
                 /\ ~RecordTrailingStop(r) /\ ~RecordStopLoss(r) /\ RecordTimeExit(r)
            /\ (RecordTakeProfit(r) /\ RecordStopLoss(r)) => r.exit_reason # "stop_loss"

\* A trade closed as take_profit in a cycle where the take-profit, the
\* stop-loss and the time-exit condition all held.
C4_Witness ==
    \E k \in 1..Len(closed_trades) :
        /\ closed_trades[k].exit_reason = "take_profit"
        /\ RecordTakeProfit(closed_trades[k])
        /\ RecordStopLoss(closed_trades[k])
        /\ RecordTimeExit(closed_trades[k])

\* C8: the percentage return of a filled position is
\* (current - entry_price) / entry_price x 100 with current the YES price on
\* the yes side and 100 minus the YES price on the no side: every record
\* holds that value of the contract, the return and the total of it, and the
\* rule that closed it held on that return; a yes-side position entered at 40
\* and seen at 46 under take_profit_pct = 15 has return 15.0 and is closed as
\* take_profit unless the model edge has reversed, so no filled position
\* stays live with a peak at or above the take-profit threshold.
C8_PercentageReturn ==
    /\ \A k \in 1..Len(closed_trades) :
          LET r == closed_trades[k]
              current == IF r.side = "yes" THEN r.current_yes ELSE 100 - r.current_yes
              num == 100 * (current - r.entry_price)
          IN  /\ r.exit_price = current
              /\ r.pnl_cents = (current - r.entry_price) * r.contracts
              /\ r.pnl_pct = RoundHalfEven(10 * num, r.entry_price)
              /\ r.exit_reason = "take_profit" =>
                   num >= r.exit_params.take_profit_pct * r.entry_price
              /\ r.exit_reason = "stop_loss" =>
                   \/ num <= -(r.exit_params.stop_loss_pct * r.entry_price)
                   \/ current - r.entry_price <= -MAX_LOSS_PER_CONTRACT
              /\ (/\ r.side = "yes" /\ r.entry_price = 40 /\ r.current_yes = 46
                  /\ r.exit_params.take_profit_pct = 15) =>
                   /\ r.pnl_pct = 150
                   /\ r.exit_reason \in {"take_profit", "model_exit"}
                   /\ r.exit_reason = "model_exit" =>
                        r.edge_updates >= 2 /\ r.edge_at_exit <= r.exit_params.edge_exit
    /\ \A i \in 1..Len(positions) :
          positions[i].filled =>
              positions[i].peak_pnl_pct < exits.take_profit_pct * positions[i].entry_price

\* A yes-side position entered at 40 was closed at 46 as take_profit under
\* the 15% threshold, and a no-side position was closed at a YES price of 54,
\* which is 46 to its holder.
C8_Witness ==
    /\ \E k \in 1..Len(closed_trades) :
          /\ closed_trades[k].side = "yes"
          /\ closed_trades[k].entry_price = 40
          /\ closed_trades[k].current_yes = 46
          /\ closed_trades[k].exit_params.take_profit_pct = 15
          /\ closed_trades[k].exit_reason = "take_profit"
          /\ closed_trades[k].pnl_pct = 150
    /\ \E k \in 1..Len(closed_trades) :
          /\ closed_trades[k].side = "no"
          /\ closed_trades[k].current_yes = 54
          /\ closed_trades[k].exit_price = 46
          /\ closed_trades[k].exit_reason = "take_profit"

\* ------------------------------------------------------------------------
\* SpecTune: a session with closed trades behind it, up to a tuning pass
\* ------------------------------------------------------------------------
\* A closed trade of the session so far: a yes-side position of 4 contracts
\* entered at 40 on another event, with the YES price at its exit, its peak
\* in cents above the entry and its trajectory.
HistoryTrade(reason, exit_price, peak_cents, traj, hold_time) ==
    [ticker |-> Ticker("H", "HOME"),
     side |-> "yes",
     entry_price |-> 40,
     exit_price |-> exit_price,
     contracts |-> 4,
     total_cost |-> 160,
     pnl_cents |-> 4 * (exit_price - 40),
     pnl_pct |-> Round1(100 * (exit_price - 40), 40),
     exit_reason |-> reason,
     hold_time |-> hold_time,
     peak_pnl_pct |-> Round1(100 * peak_cents, 40),
     peak_num |-> 100 * peak_cents,
     current_yes |-> exit_price,
     strategy |-> "halftime_edge",
     exit_params |-> DEFAULT_EXITS,
     edge_at_exit |-> 8,
     edge_updates |-> Len(traj),
     pnl_trajectory |-> traj]

StopRecovered == HistoryTrade("stop_loss", 33, 0, <<-125, -75>>, 100)
StopUnrecovered == HistoryTrade("stop_loss", 33, 0, <<-75, -125>>, 100)
TookProfit == HistoryTrade("take_profit", 46, 6, <<>>, 100)
TimedOutUp == HistoryTrade("time_exit", 42, 2, <<>>, 301)
TimedOutDown == HistoryTrade("time_exit", 38, 0, <<>>, 301)

RECURSIVE Repeat(_, _)
Repeat(x, n) == IF n = 0 THEN <<>> ELSE <<x>> \o Repeat(x, n - 1)

Histories ==
    {Repeat(StopRecovered, 3) \o <<StopUnrecovered>>,
     Repeat(TookProfit, 5) \o <<StopUnrecovered>> \o Repeat(StopRecovered, 3),
     Repeat(StopUnrecovered, 6) \o Repeat(StopRecovered, 3),
     Repeat(TookProfit, 5) \o Repeat(TimedOutUp, 4),
     Repeat(TookProfit, 5) \o Repeat(TimedOutDown, 4),
     Repeat(TimedOutUp, 5) \o Repeat(TookProfit, 5) \o Repeat(StopRecovered, 4)}

\* tuned_exits.json at start-up: absent, a set written by earlier sessions'
\* tuning (stop loss and time exit next to their caps, at them, and next to
\* the time exit's floor), and a file edited by hand beyond the caps.
TuneFiles ==
    {None,
     Some([DEFAULT_EXITS EXCEPT !.stop_loss_pct = 19, !.time_exit = 570]),
     Some([DEFAULT_EXITS EXCEPT !.stop_loss_pct = 20, !.time_exit = 600]),
     Some([DEFAULT_EXITS EXCEPT !.stop_loss_pct = 17, !.time_exit = 120]),
     Some([DEFAULT_EXITS EXCEPT !.stop_loss_pct = 25, !.time_exit = 630])}

\* The tuning passes the session has run on its history from the close
\* that made it k trades long: one at every fifth close.
RECURSIVE PassesFrom(_, _, _)
PassesFrom(history, k, ex) ==
    IF k > Len(history) THEN ex
    ELSE PassesFrom(history, k + 5, TuneExits(SubSeq(history, 1, k), ex))

\* The tuning passes the session has run on its history: the first at 10
\* trades.
ExitsAfter(history, ex) == PassesFrom(history, 10, ex)

\* The controller in a session started from `file`, with `history` closed.
InSession(file, history) ==
    /\ now = StartTime
    /\ client = TRUE
    /\ positions = <<>>
    /\ recent_tickers = [t \in {Ticker("H", "HOME")} |-> 0]
    /\ recent_events = [e \in {ExtractGameEvent(Ticker("H", "HOME"))} |-> 0]
    /\ known_kalshi_tickers = {}
    /\ bankroll = 2000
    /\ bankroll_ts = StartTime
    /\ target_position = TargetPosition(2000)
    /\ exits = ExitsAfter(history, LoadTunedExits(file))
    /\ tuned_file = IF ExitsAfter(history, LoadTunedExits(file)) # LoadTunedExits(file)
                    THEN SaveTunedExits(ExitsAfter(history, LoadTunedExits(file)))
                    ELSE file
    /\ closed_trades = history
    /\ total_pnl = SumSeq([i \in 1..Len(history) |-> history[i].pnl_cents])
    /\ total_invested = SumSeq([i \in 1..Len(history) |-> history[i].total_cost])
    /\ trade_count = Len(history)
    /\ venue_calls = NoCalls
    /\ orch = NewOrchestrator
    /\ learning = NewLearning

TuneInit ==
    /\ \E file \in TuneFiles, history \in Histories : InSession(file, history)
    /\ InitStrategyEngine
    /\ NoModelCall

TuneSignalStep ==
    /\ ExecutorOnly
    /\ OnSignal(Signal(Ticker("G1", "HOME"), "yes", 6, 8, 39, 150), Some(2000), Some("order"))

\* The market's YES price at 35 or 37, the model's value two cents above.
TuneModelStep ==
    /\ ExecutorOnly
    /\ \E t \in PositionTickers, market_price \in {35, 37} :
        /\ PositionOf(t).edge_updates < MaxUpdates
        /\ UpdateModelFv(t, market_price + 2, market_price)

\* One position is closed on top of the history.
TuneCheckStep ==
    /\ ExecutorOnly
    /\ \E prices \in PriceMaps({33, 46}), fills \in FillAnswers :
        /\ \/ FilledAfter(fills) = {}
           \/ \E history \in Histories : Len(closed_trades) = Len(history)
        /\ CheckPositions(prices, fills)

TuneTickStep ==
    /\ ExecutorOnly
    /\ \E d \in TickSteps :
        /\ now + d <= StartTime + MaxElapsed
        /\ Tick(d)

TuneNext == TuneSignalStep \/ TuneModelStep \/ TuneCheckStep \/ TuneTickStep

SpecTune == TuneInit /\ [][TuneNext]_vars

\* The bounds of a parameter set, edge_exit apart.
WithinBounds(ex) ==
    /\ ex.stop_loss_pct >= 0 /\ ex.stop_loss_pct <= 20
    /\ ex.take_profit_pct >= 0 /\ ex.take_profit_pct <= 30
    /\ ex.trailing_stop_pct >= 0
    /\ ex.trailing_activate_pct >= 4
    /\ ex.time_exit >= 120 /\ ex.time_exit <= 600

\* C7 (as amended): the active set is the persisted set merged over the
\* defaults, so it is what the file holds; its edge_exit is the negative
\* threshold -1 of the defaults; and once its other values are within bounds
\* (none negative, stop_loss_pct <= 20, take_profit_pct <= 30,
\* 120 <= time_exit <= 600, trailing_activate_pct >= 4), as they are for the
\* defaults and for every set tuning wrote, every tuning pass keeps them so.
C7_BoundsStep ==
    /\ exits = LoadTunedExits(tuned_file)
    /\ exits' = LoadTunedExits(tuned_file')
    /\ exits'.edge_exit = exits.edge_exit
    /\ tuned_file = None => exits.edge_exit = -1
    /\ WithinBounds(exits) => WithinBounds(exits')

StopsSeen(all_trades) ==
    SelectSeq(LastN(all_trades, 30), LAMBDA t : t.exit_reason = "stop_loss")
RecoveredSeen(all_trades) ==
    Cardinality({i \in 1..Len(StopsSeen(all_trades)) : Recovered(StopsSeen(all_trades)[i])})

\* The last five closed trades are stop losses, four or more recovered.
FiveStopsFourRecovered(all_trades) ==
    /\ Len(all_trades) >= 5
    /\ \A i \in (Len(all_trades) - 4)..Len(all_trades) :
          all_trades[i].exit_reason = "stop_loss"
    /\ Cardinality({i \in (Len(all_trades) - 4)..Len(all_trades) :
                       Recovered(all_trades[i])}) >= 4

\* C9 (as amended): when a trade is closed, stop_loss_pct becomes
\* min(20, stop_loss_pct + 2) if a tuning pass is due (the closed trades
\* number 10 or more and a multiple of 5), the last 30 closed trades hold at
\* least 3 stop losses, more than half of them recovered by more than 3
\* points above their low, and stop_loss_pct is below 20; otherwise it does
\* not change.  Five stop losses alone, four of them recovered, raise it only
\* when they satisfy this.
C9_TuningStep ==
    Len(closed_trades') > Len(closed_trades) =>
        IF /\ Len(closed_trades') >= 10
           /\ Len(closed_trades') % 5 = 0
           /\ Len(StopsSeen(closed_trades')) >= 3
           /\ 2 * RecoveredSeen(closed_trades') > Len(StopsSeen(closed_trades'))
           /\ exits.stop_loss_pct < 20
        THEN exits'.stop_loss_pct = Min(20, exits.stop_loss_pct + 2)
        ELSE exits'.stop_loss_pct = exits.stop_loss_pct

C9_AsStatedStep ==
    (/\ Len(closed_trades') > Len(closed_trades)
     /\ FiveStopsFourRecovered(closed_trades')
     /\ exits.stop_loss_pct <= 20) =>
        exits'.stop_loss_pct = Min(20, exits.stop_loss_pct + 2)

C27_TuningStep ==
    /\ exits' # exits => /\ tuned_file' = Some(exits')
                         /\ LoadTunedExits(tuned_file') = exits'
                         /\ Len(closed_trades') > Len(closed_trades)
    /\ exits' = exits => tuned_file' = tuned_file
    /\ Len(closed_trades') = Len(closed_trades) + 1 =>
           exits' = IF TuningDue(closed_trades') THEN TuneExits(closed_trades', exits)
                    ELSE exits

BatchHistories ==
    {Repeat(TimedOutDown, 5) \o Repeat(TookProfit, 28),
     Repeat(TimedOutDown, 5) \o Repeat(TookProfit, 29),
     Repeat(TookProfit, 5) \o Repeat(TimedOutDown, 3),
     Repeat(TookProfit, 5) \o Repeat(TimedOutDown, 4)}

BatchInit ==
    /\ \E history \in BatchHistories : InSession(None, history)
    /\ InitStrategyEngine
    /\ NoModelCall

\* One position is closed on top of the history.
BatchCheckStep ==
    /\ ExecutorOnly
    /\ \E prices \in PriceMaps({33, 46}), fills \in FillAnswers :
        /\ \/ FilledAfter(fills) = {}
           \/ \E history \in BatchHistories : Len(closed_trades) = Len(history)
        /\ CheckPositions(prices, fills)

BatchNext == TuneSignalStep \/ TuneModelStep \/ BatchCheckStep \/ TuneTickStep

SpecBatch == BatchInit /\ [][BatchNext]_vars

\* The rules of a pass on the trades it is given.
RulesOn(trades, ex) ==
    TuneTrailing(trades, TuneTimeExit(trades, TuneTakeProfit(trades, TuneStopLoss(trades, ex))))

\* C31: the close that makes the closed trades n long is followed by a
\* tuning pass exactly when n is at least 10 and a multiple of 5: then the
\* active set becomes what the rules make of the 30 most recent closed
\* trades, that close included, and of nothing older; after any other close,
\* and in a step that closes nothing, the set is as it was.
C31_BatchStep ==
    /\ Len(closed_trades') = Len(closed_trades) + 1 =>
          LET n == Len(closed_trades')
              recent == SubSeq(closed_trades', Max(1, n - 29), n)
          IN  exits' = IF n >= 10 /\ n % 5 = 0 THEN RulesOn(recent, exits) ELSE exits
    /\ Len(closed_trades') = Len(closed_trades) => exits' = exits

MaxLead == 3
ModelLeads == (-MaxLead)..MaxLead
ModelMinutes == {0, 1, 5, 25, 100, 200, 400}
ModelSpreads == {-20, -12, -5, 0, 5, 12, 20}

ModelCalls ==
    [lead : ModelLeads, minutes_remaining : ModelMinutes, home : BOOLEAN,
     pregame_spread : ModelSpreads]

ModelInit ==
    /\ InitExecutor(None, {}, Some(2000))
    /\ InitStrategyEngine
    /\ model_args \in {Some(c) : c \in ModelCalls}
    /\ model_value = None
    /\ sigma = SIGMA

FairValueStep ==
    /\ model_value = None
    /\ model_value' = Some(FairValueCents(model_args[1].lead, model_args[1].minutes_remaining,
                                          model_args[1].home, model_args[1].pregame_spread))
    /\ UNCHANGED <<now, execVars, engineVars, model_args, sigma, venueVars, orchVars, learnVars>>

ModelNext == FairValueStep

SpecModel == ModelInit /\ [][ModelNext]_vars

\* C10, as the specification states it: with time on the clock the fair
\* value is above 50 for every positive lead, below 50 for every negative
\* lead, and exactly 50 for a lead of 0 with no pregame spread.
C10_AsStated ==
    (model_value # None /\ model_args[1].minutes_remaining > 0) =>
        /\ model_args[1].lead > 0 => model_value[1] > 50
        /\ model_args[1].lead < 0 => model_value[1] < 50
        /\ (model_args[1].lead = 0 /\ model_args[1].pregame_spread = 0) => model_value[1] = 50

\* C11: fair_value_cents returns an integer from 1 to 99, and with no time
\* left exactly 99 for a positive lead, 50 for a lead of 0 and 1 for a
\* negative lead, whatever the home flag and the pregame spread.
C11_ClampedAndFinal ==
    model_value # None =>
        /\ model_value[1] \in 1..99
        /\ model_args[1].minutes_remaining = 0 =>
            model_value[1] = (IF model_args[1].lead > 0 THEN 99
                              ELSE IF model_args[1].lead < 0 THEN 1 ELSE 50)

\* A finished game the home team won, asked for the away side's flag with a
\* pregame spread against the home team: 99.
C11_Witness ==
    /\ model_value = Some(99)
    /\ model_args[1].minutes_remaining = 0
    /\ model_args[1].lead > 0
    /\ ~model_args[1].home
    /\ model_args[1].pregame_spread < 0

\* C12: with minutes_remaining, home flag and pregame spread fixed, the fair
\* value does not fall when the lead rises, and delta_per_point is never
\* negative.
C12_MonotoneInLead ==
    model_value # None =>
        /\ \A l2 \in ModelLeads \cup {model_args[1].lead + 1} :
               l2 >= model_args[1].lead =>
                   model_value[1] <= FairValueCents(l2, model_args[1].minutes_remaining,
                                                    model_args[1].home,
                                                    model_args[1].pregame_spread)
        /\ DeltaPerPoint(model_args[1].lead, model_args[1].minutes_remaining,
                         model_args[1].pregame_spread) >= 0

\* A negative lead with time on the clock where one more point raises both
\* the fair value and the probability.
C12_Witness ==
    /\ model_value # None
    /\ model_args[1].lead < 0
    /\ model_args[1].minutes_remaining > 0
    /\ model_value[1] < FairValueCents(model_args[1].lead + 1,
                                        model_args[1].minutes_remaining,
                                        model_args[1].home, model_args[1].pregame_spread)
    /\ DeltaPerPoint(model_args[1].lead, model_args[1].minutes_remaining,
                     model_args[1].pregame_spread) > 0

\* ------------------------------------------------------------------------
\* SpecStrategy: the signal engine fed with one game and its two markets
\* ------------------------------------------------------------------------
MaxCalls == 4
StrategyMaxElapsed == 90
StrategyTickSteps == {45}

\* A game snapshot of the live feed (bot/espn_feed.py): lead is the home
\* score minus the away score; minutes_remaining is 20 plus the clock in the
\* first half and the clock in the second.
Game(home_score, away_score, minutes_remaining, period) ==
    [espn_id |-> "401", home |-> "HOME", home_score |-> home_score,
     away_score |-> away_score, lead |-> home_score - away_score,
     minutes_remaining |-> minutes_remaining, period |-> period, pregame_spread |-> 0]

HomeMarket == Ticker("G1", "HOME")
AwayMarket == Ticker("G1", "AWAY")
Markets == {HomeMarket, AwayMarket}

Quote(last_price, yes_bid, yes_ask) ==
    [last_price |-> last_price, yes_bid |-> yes_bid, yes_ask |-> yes_ask, volume |-> 100]

\* The away market quotes the complement of the home market.
QuotesOf(ticker) ==
    IF ticker = HomeMarket THEN {Quote(85, 83, 90), Quote(66, 64, 72)}
    ELSE {Quote(15, 10, 17), Quote(34, 28, 36)}

\* The second half: the start, two moments of a close finish, the end.
Snapshots ==
    {Game(40, 30, 190, 2), Game(56, 54, 60, 2), Game(58, 54, 50, 2), Game(60, 56, 25, 2)}

\* The feed's snapshots of a game follow the game: scores do not fall, the
\* clock does not rise.
Follows(earlier, later) ==
    /\ later.home_score >= earlier.home_score
    /\ later.away_score >= earlier.away_score
    /\ later.minutes_remaining <= earlier.minutes_remaining
    /\ later.period >= earlier.period

\* An engine that has watched a home run in the first half, one observation
\* of the home market every 15 seconds up to 15 seconds ago.
RunScript ==
    <<[t |-> StartTime - 75, game |-> Game(28, 30, 250, 1)],
      [t |-> StartTime - 60, game |-> Game(30, 30, 240, 1)],
      [t |-> StartTime - 45, game |-> Game(33, 30, 230, 1)],
      [t |-> StartTime - 30, game |-> Game(35, 30, 220, 1)],
      [t |-> StartTime - 15, game |-> Game(38, 30, 200, 1)]>>

RECURSIVE Replay(_, _)
Replay(eng, script) ==
    IF script = <<>> THEN eng
    ELSE Replay(Observe(eng, Head(script).t, HomeMarket, Quote(66, 64, 72), Head(script).game),
                Tail(script))

StartEngines == {NewStrategyEngine, Replay(NewStrategyEngine, RunScript)}

StrategyInit ==
    /\ InitExecutor(None, {}, Some(2000))
    /\ NoModelCall
    /\ \E eng \in StartEngines :
        /\ signals = eng.signals
        /\ price_history = eng.price_history
        /\ game_states = eng.game_states
        /\ edge_history = eng.edge_history
        /\ last_signal_ts = eng.last_signal_ts
        /\ strategy_stats = eng.strategy_stats
        /\ prev_prices = eng.prev_prices

\* The observations of a market since time t.
ObservedSince(ticker, t) ==
    {i \in 1..Len(Get(price_history, ticker, <<>>)) : price_history[ticker][i].ts >= t}

CallsSince(t) ==
    Cardinality(ObservedSince(HomeMarket, t)) + Cardinality(ObservedSince(AwayMarket, t))

\* A cycle observes each market once, with the one snapshot of its poll.
FeedAllows(ticker, game) ==
    LET history == Get(game_states, game.espn_id, <<>>)
    IN  /\ ObservedSince(ticker, now) = {}
        /\ history # <<>> => Follows(history[Len(history)], game)
        /\ CallsSince(now) > 0 => game = history[Len(history)]

PriceUpdateStep ==
    \E ticker \in Markets, game \in Snapshots :
        \E mkt \in QuotesOf(ticker) :
            /\ CallsSince(StartTime) < MaxCalls
            /\ FeedAllows(ticker, game)
            /\ PriceUpdate(ticker, mkt, game)

StrategyTickStep ==
    \E d \in StrategyTickSteps :
        /\ now + d <= StartTime + StrategyMaxElapsed
        /\ Tick(d)
        /\ UNCHANGED <<engineVars, modelVars, venueVars, orchVars, learnVars>>

StrategyNext == PriceUpdateStep \/ StrategyTickStep

SpecStrategy == StrategyInit /\ [][StrategyNext]_vars

SamePair(a, b) == a.strategy = b.strategy /\ a.ticker = b.ticker

\* COOLDOWNS[s], 120 for a strategy without an entry.
CooldownOf(strategy) ==
    IF strategy \in DOMAIN COOLDOWNS THEN COOLDOWNS[strategy] ELSE 120

\* C3: any two signals emitted for the same (strategy, contract) pair have
\* timestamps at least that strategy's cooldown apart.
C3_SignalsApart ==
    \A i, j \in 1..Len(signals) :
        (i < j /\ SamePair(signals[i], signals[j])) =>
            signals[j].ts - signals[i].ts >= CooldownOf(signals[i].strategy)

\* Two signals of one pair, with an observation of the contract in between
\* that fell inside the cooldown and emitted nothing for the pair.
C3_Witness ==
    \E i, j \in 1..Len(signals) :
        /\ i < j
        /\ SamePair(signals[i], signals[j])
        /\ \E k \in 1..Len(price_history[signals[i].ticker]) :
            LET seen == price_history[signals[i].ticker][k].ts
            IN  /\ signals[i].ts < seen
                /\ seen < signals[j].ts
                /\ seen - signals[i].ts < CooldownOf(signals[i].strategy)
                /\ \A m \in 1..Len(signals) :
                       SamePair(signals[m], signals[i]) => signals[m].ts # seen

\* ------------------------------------------------------------------------
\* SpecVenue: the controller against a venue whose calls may raise
\* ------------------------------------------------------------------------
OrderCall(call, ticker, order_id, ok) ==
    [call |-> call, ticker |-> ticker, order_id |-> order_id, ok |-> ok]

\* on_signal reaches _place_order's create_order once, when the signal has
\* passed every gate and the exposure test.
OnSignalCalls(signal, bal, order) ==
    LET b == RefreshBankroll(bal)
        unit_price == UnitPrice(signal)
        contracts == CalcContracts(unit_price, b.target_position)
        places == PassesGates(signal) /\ ~OverExposure(unit_price * contracts, b.bankroll)
    IN  [handler |-> "on_signal", signal |-> IF places THEN Some(signal) ELSE None,
         fills |-> {},
         orders |-> IF places THEN <<OrderCall("buy", signal.ticker, None, order # None)>>
                    ELSE <<>>]

\* check_positions calls cancel_order for an order that timed out and, in
\* _exit_position, create_order(action="sell") for an exit.  failing: the
\* tickers whose call raises.
ClosingCalls(acc, fills, failing) ==
    LET pos(t) == acc.positions[CHOOSE i \in 1..Len(acc.positions) :
                                    acc.positions[i].ticker = t]
    IN  [handler |-> "check_positions",
         signal |-> None,
         fills |-> IF ShouldCheckFills /\ fills # None THEN fills[1] ELSE {},
         orders |-> [k \in 1..Len(acc.to_close) |->
                       LET t == acc.to_close[k]
                       IN  IF pos(t).exit_reason = "none"
                           THEN OrderCall("cancel_order", t, Some(pos(t).order_id),
                                          t \notin failing)
                           ELSE OrderCall("sell", t, None, t \notin failing)]]

CheckPositionsCalls(current_prices, fills, failing) ==
    ClosingCalls(Managed(current_prices, fills), fills, failing)

\* The positions a run closes: each has one cancel_order or sell call.
Closing(current_prices, fills) ==
    LET to_close == Managed(current_prices, fills).to_close
    IN  {to_close[k] : k \in 1..Len(to_close)}

VenueMaxElapsed == 61
VenueMaxClosed == 1
VenueTickSteps == {15, 31}
VenuePriceLevels == {33, 46}

VenueSignals ==
    {Signal(Ticker("G1", "HOME"), "yes", 6, 8, 39, 150),
     Signal(Ticker("G2", "HOME"), "yes", 6, 8, 39, 150)}

\* create_order's answers to a buy: it raises, or it returns an order id.
VenueOrderAnswers(signal) == {None, Some(<<"order", signal.ticker[2]>>)}

VenueFillAnswers == {None, Some({}), Some(PositionTickers)}

VenueInit == InitExecutor(None, {}, Some(2000)) /\ InitStrategyEngine /\ NoModelCall

VenueSignalStep ==
    /\ OrdersOnly
    /\ \E signal \in VenueSignals :
        \E order \in VenueOrderAnswers(signal) :
            /\ OnSignal(signal, Some(2000), order)
            /\ venue_calls' = OnSignalCalls(signal, Some(2000), order)

VenueCheckStep ==
    /\ OrdersOnly
    /\ \E prices \in PriceMaps(VenuePriceLevels), fills \in VenueFillAnswers :
        \E failing \in SUBSET Closing(prices, fills) :
            /\ Len(closed_trades) + Cardinality(FilledAfter(fills)) <= VenueMaxClosed
            /\ CheckPositions(prices, fills)
            /\ venue_calls' = CheckPositionsCalls(prices, fills, failing)

VenueTickStep ==
    /\ OrdersOnly
    /\ \E d \in VenueTickSteps :
        /\ now + d <= StartTime + VenueMaxElapsed
        /\ Tick(d)
        /\ venue_calls' = NoCalls

VenueNext == VenueSignalStep \/ VenueCheckStep \/ VenueTickStep

SpecVenue == VenueInit /\ [][VenueNext]_vars

\* The orders of the run that have the given shape.
CallsFor(calls, call, ticker) ==
    {k \in 1..Len(calls.orders) :
        calls.orders[k].call = call /\ calls.orders[k].ticker = ticker}

\* A position the run finds unfilled and older than ORDER_TIMEOUT: its order
\* is not among the fills the run was told of.
FoundTimedOut(pos, calls) ==
    /\ ~pos.filled
    /\ now - pos.entry_time > ORDER_TIMEOUT
    /\ pos.ticker \notin calls.fills

\* C13: a check_positions run that finds a position unfilled for longer than
\* ORDER_TIMEOUT calls cancel_order once with the position's order id and
\* removes the position; it appends no closed-trade record for it, and
\* total_pnl, total_invested and trade_count move only by the records of the
\* exits of the same run, so not at all when the run makes no exit.
C13_TimeoutStep ==
    venue_calls'.handler = "check_positions" =>
        /\ \A i \in 1..Len(positions) :
               FoundTimedOut(positions[i], venue_calls') =>
                   LET pos == positions[i]
                       cancels == CallsFor(venue_calls', "cancel_order", pos.ticker)
                   IN  /\ Cardinality(cancels) = 1
                       /\ \A k \in cancels :
                              venue_calls'.orders[k].order_id = Some(pos.order_id)
                       /\ CallsFor(venue_calls', "sell", pos.ticker) = {}
                       /\ pos.ticker \notin LiveTickers(positions')
                       /\ NewRecordsOf(pos.ticker) = 0
        /\ total_pnl' = total_pnl + SumSeq([k \in 1..Len(NewRecords) |-> NewRecords[k].pnl_cents])
        /\ total_invested' =
               total_invested + SumSeq([k \in 1..Len(NewRecords) |-> NewRecords[k].total_cost])
        /\ trade_count' = trade_count + Len(NewRecords)

CooldownMaxClosed == 2

\* The clock is read at the start and one second before and at the end of
\* each cooldown counted from the start.
CooldownTimes ==
    {StartTime + d : d \in {0, TICKER_COOLDOWN - 1, TICKER_COOLDOWN, GAME_COOLDOWN - 1,
                            GAME_COOLDOWN, GAME_COOLDOWN + 299, GAME_COOLDOWN + 300}}

\* Two contracts of one game event.
CooldownSignals ==
    {Signal(Ticker("G1", "HOME"), "yes", 6, 8, 39, 150),
     Signal(Ticker("G1", "AWAY"), "no", 6, 8, 61, 150)}

CooldownInit == InitExecutor(None, {}, Some(2000)) /\ InitStrategyEngine /\ NoModelCall

CooldownSignalStep ==
    /\ ExecutorOnly
    /\ \E signal \in CooldownSignals, order \in OrderAnswers :
        OnSignal(signal, Some(2000), order)

CooldownCheckStep ==
    /\ ExecutorOnly
    /\ \E prices \in PriceMaps(PriceLevels), fills \in FillAnswers :
        /\ Len(closed_trades) + Cardinality(FilledAfter(fills)) <= CooldownMaxClosed
        /\ CheckPositions(prices, fills)

CooldownTickStep ==
    /\ ExecutorOnly
    /\ \E t \in CooldownTimes :
        /\ t > now
        /\ Tick(t - now)

CooldownNext == CooldownSignalStep \/ CooldownCheckStep \/ CooldownTickStep

SpecCooldown == CooldownInit /\ [][CooldownNext]_vars

\* The reason the step recorded for closing t ("none": a cancelled order).
ClosedFor(t) ==
    IF NewRecordsOf(t) = 0 THEN "none"
    ELSE NewRecords[CHOOSE k \in 1..Len(NewRecords) : NewRecords[k].ticker = t].exit_reason

\* C14: a position closed at time T leaves the stamps recent_tickers[ticker] = T
\* and recent_events[event] = T, or T + 300 when it was closed by stop_loss; the
\* stamps never move back; and a position is opened on a contract only when
\* the clock is at least TICKER_COOLDOWN past the contract's stamp and
\* GAME_COOLDOWN past its event's.  So no position is opened on the contract
\* before T + TICKER_COOLDOWN, none on the event before T + GAME_COOLDOWN, and
\* none on the event before T + GAME_COOLDOWN + 300 after a stop_loss.
C14_CooldownStep ==
    /\ \A t \in LiveTickers(positions) \ LiveTickers(positions') :
           /\ Get(recent_tickers', t, 0) = now
           /\ Get(recent_events', ExtractGameEvent(t), 0) =
                  (IF ClosedFor(t) = "stop_loss" THEN now + 300 ELSE now)
    /\ \A t \in LiveTickers(positions') \ LiveTickers(positions) :
           /\ now >= Get(recent_tickers, t, 0) + TICKER_COOLDOWN
           /\ now >= Get(recent_events, ExtractGameEvent(t), 0) + GAME_COOLDOWN
    /\ \A t \in DOMAIN recent_tickers :
           t \in DOMAIN recent_tickers' /\ recent_tickers'[t] >= recent_tickers[t]
    /\ \A e \in DOMAIN recent_events :
           e \in DOMAIN recent_events' /\ recent_events'[e] >= recent_events[e]
    /\ now' >= now

C14_Cooldowns == [][C14_CooldownStep]_vars

\* A stop_loss at the start, and the other contract of the event opened at
\* the first instant allowed, GAME_COOLDOWN + 300 later.
C14_Witness ==
    /\ closed_trades # <<>>
    /\ closed_trades[1].exit_reason = "stop_loss"
    /\ closed_trades[1].ticker = Ticker("G1", "HOME")
    /\ recent_events[<<ALLOWED_SERIES, "G1">>] = StartTime + 300
    /\ now = StartTime + GAME_COOLDOWN + 300
    /\ \E i \in 1..Len(positions) :
           /\ positions[i].ticker = Ticker("G1", "AWAY")
           /\ positions[i].entry_time = now

\* ------------------------------------------------------------------------
\* SpecGates: signals on both sides of every threshold
\* ------------------------------------------------------------------------
GatesMaxClosed == 1

\* A scanned series that on_signal must refuse: the women's game winner.
OtherSeries == "KXNCAAWBGAME"

\* Every combination of a strength, an edge, a remaining time (in tenths of
\* a minute) and a market price next to the thresholds, in both series and
\* on both sides.
GateSignals ==
    {Signal(<<series, "G1", "HOME">>, side, strength, edge, market_price, minutes_remaining) :
        series \in {ALLOWED_SERIES, OtherSeries},
        side \in {"yes", "no"},
        strength \in {MIN_SIGNAL_STRENGTH - 1, MIN_SIGNAL_STRENGTH},
        edge \in {MIN_EDGE - 1, MIN_EDGE, MAX_EDGE, MAX_EDGE + 1},
        market_price \in {MIN_ENTRY_PRICE - 1, MIN_ENTRY_PRICE,
                          100 - MIN_ENTRY_PRICE, 100 - MIN_ENTRY_PRICE + 1},
        minutes_remaining \in {MIN_MINUTES_REMAINING * 10 - 1, MIN_MINUTES_REMAINING * 10}}

GatesInit == InitExecutor(None, {}, Some(2000)) /\ InitStrategyEngine /\ NoModelCall

GatesSignalStep ==
    /\ OrdersOnly
    /\ \E signal \in GateSignals, order \in OrderAnswers :
        /\ OnSignal(signal, Some(2000), order)
        /\ venue_calls' = OnSignalCalls(signal, Some(2000), order)

GatesCheckStep ==
    /\ OrdersOnly
    /\ \E prices \in PriceMaps(PriceLevels), fills \in FillAnswers :
        /\ Len(closed_trades) + Cardinality(FilledAfter(fills)) <= GatesMaxClosed
        /\ CheckPositions(prices, fills)
        /\ venue_calls' = CheckPositionsCalls(prices, fills, {})

GatesTickStep ==
    /\ OrdersOnly
    /\ \E d \in TickSteps :
        /\ now + d <= StartTime + MaxElapsed
        /\ Tick(d)
        /\ venue_calls' = NoCalls

GatesNext == GatesSignalStep \/ GatesCheckStep \/ GatesTickStep

SpecGates == GatesInit /\ [][GatesNext]_vars

\* The thresholds of the claim, on the signal's own fields.
WithinThresholds(signal) ==
    /\ signal.strength >= MIN_SIGNAL_STRENGTH
    /\ signal.edge >= MIN_EDGE
    /\ signal.edge <= MAX_EDGE
    /\ signal.minutes_remaining >= MIN_MINUTES_REMAINING * 10
    /\ signal.ticker[1] = ALLOWED_SERIES
    /\ signal.market_price # None
    /\ signal.market_price[1] >= MIN_ENTRY_PRICE
    /\ signal.market_price[1] <= 100 - MIN_ENTRY_PRICE

\* C15: the signal every live position was created from has strength >=
\* MIN_SIGNAL_STRENGTH, MIN_EDGE <= edge <= MAX_EDGE, minutes_remaining >=
\* MIN_MINUTES_REMAINING, a ticker of the allow-listed series and a market
\* price in [MIN_ENTRY_PRICE, 100 - MIN_ENTRY_PRICE]; and an on_signal run
\* that made a create_order call was given such a signal.
C15_GatedAdmission ==
    /\ \A i \in 1..Len(positions) : WithinThresholds(positions[i].signal)
    /\ (venue_calls.handler = "on_signal" /\ venue_calls.orders # <<>>) =>
           WithinThresholds(venue_calls.signal[1])

\* A position created from a signal that sits on every threshold.
C15_Witness ==
    /\ venue_calls.handler = "on_signal"
    /\ Len(venue_calls.orders) = 1
    /\ Len(positions) = 1
    /\ positions[1].signal = venue_calls.signal[1]
    /\ positions[1].signal.strength = MIN_SIGNAL_STRENGTH
    /\ positions[1].signal.edge = MAX_EDGE
    /\ positions[1].signal.minutes_remaining = MIN_MINUTES_REMAINING * 10
    /\ positions[1].signal.market_price = Some(100 - MIN_ENTRY_PRICE)
    /\ closed_trades # <<>>

\* ------------------------------------------------------------------------
\* SpecExposure: admissions against the exposure cap, as the balance moves
\* ------------------------------------------------------------------------
ExposureMaxElapsed == 60
ExposureMaxClosed == 1
ExposureTickSteps == {60}

\* get_balance's answers: it raises, or it reports an empty account, a
\* small one or a large one (cents).
BalanceAnswers == {None, Some(0), Some(100), Some(2000)}

ExposureSignals ==
    {Signal(Ticker(event, "HOME"), "yes", 6, 8, 39, 150) : event \in {"G1", "G2"}}

ExposureInit ==
    /\ \E bal \in BalanceAnswers : InitExecutor(None, {}, bal)
    /\ InitStrategyEngine
    /\ NoModelCall

ExposureSignalStep ==
    /\ ExecutorOnly
    /\ \E signal \in ExposureSignals, bal \in BalanceAnswers, order \in OrderAnswers :
        OnSignal(signal, bal, order)

ExposureCheckStep ==
    /\ ExecutorOnly
    /\ \E prices \in PriceMaps(PriceLevels), fills \in FillAnswers :
        /\ Len(closed_trades) + Cardinality(FilledAfter(fills)) <= ExposureMaxClosed
        /\ CheckPositions(prices, fills)

ExposureTickStep ==
    /\ ExecutorOnly
    /\ \E d \in ExposureTickSteps :
        /\ now + d <= StartTime + ExposureMaxElapsed
        /\ Tick(d)

ExposureNext == ExposureSignalStep \/ ExposureCheckStep \/ ExposureTickStep

SpecExposure == ExposureInit /\ [][ExposureNext]_vars

\* The capital committed to the positions ps.
ExposureOf(ps) == SumSeq([i \in 1..Len(ps) |-> ps[i].total_cost])

\* A balance is known once a get_balance call has returned: _bankroll_ts is
\* written only then, with the time of the call.
BalanceKnown(ts) == ts # 0

\* C16, as stated: right after an admission the total_cost of the live
\* positions, the new one included, is at most 60% of the balance the
\* controller knows, and at most 500 cents when it knows none.
C16_AsStatedStep ==
    LiveTickers(positions') \ LiveTickers(positions) # {} =>
        IF BalanceKnown(bankroll_ts')
        THEN 10 * ExposureOf(positions') <= 6 * bankroll'
        ELSE ExposureOf(positions') <= 500

C16_AsStated == [][C16_AsStatedStep]_vars

\* The create_order calls of a run that raised.
FailedBuys(calls) ==
    {k \in 1..Len(calls.orders) : calls.orders[k].call = "buy" /\ ~calls.orders[k].ok}

\* C17: an on_signal run whose create_order call raises adds no position,
\* changes no cooldown stamp and makes no second create_order call; nothing
\* of the controller changes but the balance it may have refreshed before
\* sizing, so nothing is kept of the signal to place it again.
C17_FailedOrderStep ==
    (venue_calls'.handler = "on_signal" /\ FailedBuys(venue_calls') # {}) =>
        /\ positions' = positions
        /\ recent_tickers' = recent_tickers
        /\ recent_events' = recent_events
        /\ Len(venue_calls'.orders) = 1
        /\ UNCHANGED <<client, known_kalshi_tickers, exits, tuned_file, closed_trades,
                       total_pnl, total_invested, trade_count>>

C17_FailedOrderDropped == [][C17_FailedOrderStep]_vars

\* A create_order call has just raised for a signal the gates let through,
\* after a position on the other event was closed and left its cooldown
\* stamps: no position is live and the stamps are those of the close.
C17_Witness ==
    /\ venue_calls.handler = "on_signal"
    /\ FailedBuys(venue_calls) = {1}
    /\ venue_calls.signal # None
    /\ positions = <<>>
    /\ DOMAIN recent_tickers = {Ticker("G1", "HOME")}
    /\ venue_calls.orders[1].ticker = Ticker("G2", "HOME")
    /\ recent_tickers[Ticker("G1", "HOME")] > StartTime

\* The sell and cancel_order calls of a run that raised.
FailedCloses(calls) ==
    {k \in 1..Len(calls.orders) : calls.orders[k].call # "buy" /\ ~calls.orders[k].ok}

\* C18: when the closing create_order or the cancel_order of a
\* check_positions run raises, the position it was called for is removed by
\* the same run and both its cooldowns are stamped; for an exit the run
\* still appends the position's trade record, and counts it in total_pnl,
\* total_invested and trade_count.
C18_FailedCloseStep ==
    venue_calls'.handler = "check_positions" =>
        /\ \A k \in FailedCloses(venue_calls') :
               LET t == venue_calls'.orders[k].ticker
               IN  /\ t \in LiveTickers(positions)
                   /\ t \notin LiveTickers(positions')
                   /\ Get(recent_tickers', t, 0) = now
                   /\ Get(recent_events', ExtractGameEvent(t), 0) =
                          (IF ClosedFor(t) = "stop_loss" THEN now + 300 ELSE now)
                   /\ NewRecordsOf(t) = (IF venue_calls'.orders[k].call = "sell" THEN 1 ELSE 0)
                   /\ venue_calls'.orders[k].call = "sell" =>
                          ClosedFor(t) \in {"model_exit", "take_profit", "trailing_stop",
                                            "stop_loss", "time_exit"}
        /\ trade_count' = trade_count + Len(NewRecords)
        /\ total_pnl' = total_pnl + SumSeq([k \in 1..Len(NewRecords) |-> NewRecords[k].pnl_cents])
        /\ total_invested' =
               total_invested + SumSeq([k \in 1..Len(NewRecords) |-> NewRecords[k].total_cost])

WAKE_HOUR == 18
SLEEP_HOUR == 1

\* `now` counts the seconds from an EST midnight: est_now().hour, and the
\* date datetime.now(EST).strftime("%Y-%m-%d") names, as the number of the
\* day.
HourOf(t) == (t % 86400) \div 3600
DateOf(t) == t \div 86400

\* is_active_window
IsActiveWindow(t) == HourOf(t) >= WAKE_HOUR \/ HourOf(t) < SLEEP_HOUR

\* data/signals/<date>.jsonl.  _emit_signal appends the signal to the file
\* of the date at which it is emitted, in the call that appends it to
\* self.signals; neither is ever cut, and the files are taken as empty when
\* the process starts, so the file of a date holds the signals of that date.
SignalFile(sigs, date) == SelectSeq(sigs, LAMBDA sig : DateOf(sig.ts) = date)

\* ------------------------------------------------------------------------
\* SessionAnalyzer: the grades of the signals and the scores of the strategies
\* ------------------------------------------------------------------------
\* Python's `a or b` on fields that may be None: None and 0 are both false.
OrNone(a, b) == IF a # None /\ a[1] # 0 THEN a ELSE b

\* A line of data/prices/<date>.jsonl, with the keys the grading reads.
PriceRow(ts, ticker, last_price, yes_bid) ==
    [ts |-> ts, ticker |-> ticker, last_price |-> last_price, yes_bid |-> yes_bid]

\* list.sort(key=ts): stable, rows of equal ts keep their order.
RECURSIVE InsertByTs(_, _)
InsertByTs(sorted, p) ==
    IF sorted = <<>> THEN <<p>>
    ELSE IF p.ts < Head(sorted).ts THEN <<p>> \o sorted
    ELSE <<Head(sorted)>> \o InsertByTs(Tail(sorted), p)

RECURSIVE SortByTs(_)
SortByTs(rows) ==
    IF rows = <<>> THEN <<>>
    ELSE InsertByTs(SortByTs(SubSeq(rows, 1, Len(rows) - 1)), rows[Len(rows)])

\* SessionAnalyzer.price_index[ticker]
PriceIndex(prices, ticker) == SortByTs(SelectSeq(prices, LAMBDA p : p.ticker = ticker))

\* The first row with ts >= t, if any.
FirstAtOrAfter(rows, t) ==
    LET later == {i \in 1..Len(rows) : rows[i].ts >= t}
    IN  IF later = {} THEN None
        ELSE Some(rows[CHOOSE i \in later : \A j \in later : i <= j])

\* p.get("last_price") or p.get("yes_bid")
PriceOf(p) == OrNone(p.last_price, p.yes_bid)

\* The price at signal time: of the first row at or after the signal, and
\* of the last row when that gave none.
EntryPrice(rows, sig_ts) ==
    LET first == FirstAtOrAfter(rows, sig_ts)
        found == IF first = None THEN None ELSE PriceOf(first[1])
    IN  IF found = None /\ rows # <<>> THEN PriceOf(rows[Len(rows)]) ELSE found

\* pnls[label] for the offset of the label, None when the label is not set.
FuturePnl(rows, sig_ts, side, entry_price, offset) ==
    LET first == FirstAtOrAfter(rows, sig_ts + offset)
        future_price == IF first = None THEN None ELSE PriceOf(first[1])
    IN  IF future_price = None THEN None
        ELSE IF side = "yes" THEN Some(future_price[1] - entry_price)
        ELSE Some(entry_price - future_price[1])

\* The grade of the 5-minute outcome.
GradeOf(pnl_5m) ==
    IF pnl_5m = None THEN "incomplete"
    ELSE IF pnl_5m[1] > 2 THEN "strong_win"
    ELSE IF pnl_5m[1] > 0 THEN "win"
    ELSE IF pnl_5m[1] = 0 THEN "flat"
    ELSE IF pnl_5m[1] > -2 THEN "loss"
    ELSE "strong_loss"

\* The record of a signal that is not graded; the keys it lacks in the code
\* (entry_price, pnl_2m, pnl_10m) are None, as .get() reads them.
Ungraded(sig, grade) ==
    [ts |-> sig.ts, strategy |-> sig.strategy, ticker |-> sig.ticker, side |-> sig.side,
     edge |-> sig.edge, strength |-> sig.strength, entry_price |-> None,
     pnl_1m |-> None, pnl_2m |-> None, pnl_5m |-> None, pnl_10m |-> None,
     grade |-> grade]

\* The body of the loop of _grade_signals.
GradeSignal(sig, prices) ==
    LET rows == PriceIndex(prices, sig.ticker)
        entry_price == EntryPrice(rows, sig.ts)
    IN  IF rows = <<>> THEN Ungraded(sig, "no_data")
        ELSE IF entry_price = None \/ entry_price[1] = 0 THEN Ungraded(sig, "no_price")
        ELSE LET pnl_5m == FuturePnl(rows, sig.ts, sig.side, entry_price[1], 300)
             IN  [ts |-> sig.ts, strategy |-> sig.strategy, ticker |-> sig.ticker,
                  side |-> sig.side, edge |-> sig.edge, strength |-> sig.strength,
                  entry_price |-> entry_price,
                  pnl_1m |-> FuturePnl(rows, sig.ts, sig.side, entry_price[1], 60),
                  pnl_2m |-> FuturePnl(rows, sig.ts, sig.side, entry_price[1], 120),
                  pnl_5m |-> pnl_5m,
                  pnl_10m |-> FuturePnl(rows, sig.ts, sig.side, entry_price[1], 600),
                  grade |-> GradeOf(pnl_5m)]

\* _grade_signals
GradeSignals(sigs, prices) == [i \in 1..Len(sigs) |-> GradeSignal(sigs[i], prices)]

\* A faulty selection: every record is scored, one without a 5-minute
\* outcome as an outcome of 0.
GradedAll(gs) == [i \in 1..Len(gs) |-> IF gs[i].pnl_5m = None THEN 0 ELSE gs[i].pnl_5m[1]]

\* The 5-minute outcomes of the records that have one: graded, and pnls.
Graded(gs) ==
    LET graded == SelectSeq(gs, LAMBDA g : g.pnl_5m # None)
    IN  [i \in 1..Len(graded) |-> graded[i].pnl_5m[1]]

SumSquares(pnls) == SumSeq([i \in 1..Len(pnls) |-> pnls[i] * pnls[i]])

\* sharpe is mean / std over two outcomes or more, std being 1 when the
\* variance is 0, and 0 otherwise.  With S the sum, n the number and Q the
\* sum of squares, sharpe^2 = SharpeNum / SharpeDen when the variance is not 0.
SharpeNum(pnls) == SumSeq(pnls) * SumSeq(pnls) * (Len(pnls) - 1)
SharpeDen(pnls) == Len(pnls) * (Len(pnls) * SumSquares(pnls) - SumSeq(pnls) * SumSeq(pnls))

\* The largest k in lo..hi with k = lo or (2k - 1)^2 * den <= 40000 * num:
\* sqrt(num / den) in hundredths, to the nearest.
RECURSIVE NearestHundredth(_, _, _, _)
NearestHundredth(num, den, lo, hi) ==
    IF lo >= hi THEN lo
    ELSE LET mid == (lo + hi + 1) \div 2
         IN  IF (2 * mid - 1) * (2 * mid - 1) * den <= 40000 * num
             THEN NearestHundredth(num, den, mid, hi)
             ELSE NearestHundredth(num, den, lo, mid - 1)

\* round(sharpe, 2) in hundredths, for |sharpe| < 10.23.
Sharpe(pnls) ==
    IF Len(pnls) < 2 THEN 0
    ELSE IF SharpeDen(pnls) = 0 THEN RoundHalfEven(100 * SumSeq(pnls), Len(pnls))
    ELSE LET k == NearestHundredth(SharpeNum(pnls), SharpeDen(pnls), 0, 1023)
         IN  IF SumSeq(pnls) >= 0 THEN k ELSE -k

\* sharpe > halves / 2, on the value before it is rounded.
SharpeAbove(pnls, halves) ==
    IF Len(pnls) < 2 THEN 0 > halves
    ELSE IF SharpeDen(pnls) = 0 THEN 2 * SumSeq(pnls) > halves * Len(pnls)
    ELSE IF halves >= 0
         THEN SumSeq(pnls) > 0 /\ 4 * SharpeNum(pnls) > halves * halves * SharpeDen(pnls)
         ELSE SumSeq(pnls) >= 0 \/ 4 * SharpeNum(pnls) < halves * halves * SharpeDen(pnls)

\* scores[strat] from gs, the records of the strategy, and pnls, the
\* outcomes that are scored.  win_rate, avg_pnl_5m and avg_edge_claimed are
\* in tenths, sharpe in hundredths.
ScoreOf(gs, pnls) ==
    LET wins == Cardinality({i \in 1..Len(pnls) : pnls[i] > 0})
        losses == Cardinality({i \in 1..Len(pnls) : pnls[i] < 0})
    IN  [total_signals |-> Len(gs),
         graded |-> Len(pnls),
         wins |-> wins,
         losses |-> losses,
         win_rate |-> Round1(wins * 100, Max(1, wins + losses)),
         total_pnl_5m |-> SumSeq(pnls),
         avg_pnl_5m |-> Round1(SumSeq(pnls), Max(1, Len(pnls))),
         avg_edge_claimed |-> Round1(SumSeq([i \in 1..Len(gs) |-> gs[i].edge]),
                                     Max(1, Len(gs))),
         sharpe |-> Sharpe(pnls),
         grade |-> IF SharpeAbove(pnls, 2) THEN "A"
                   ELSE IF SharpeAbove(pnls, 1) THEN "B"
                   ELSE IF SharpeAbove(pnls, 0) THEN "C"
                   ELSE IF SharpeAbove(pnls, -1) THEN "D"
                   ELSE "F"]

\* by_strat[strat]
ByStrategy(grades, strat) == SelectSeq(grades, LAMBDA g : g.strategy = strat)

\* _score_strategies
ScoreStrategies(grades) ==
    [strat \in {grades[i].strategy : i \in 1..Len(grades)} |->
        ScoreOf(ByStrategy(grades, strat), Graded(ByStrategy(grades, strat)))]

\* Python's truth of a field that may be None.
Truthy(a) == a # None /\ a[1] # 0

\* fee * 2 of a paper trade: fee = max(1, round(0.0175 * e/100 * (1 - e/100) * 100)).
PaperFees(entry) == 2 * Max(1, RoundHalfEven(175 * entry * (100 - entry), 1000000))

\* The net P&L of the paper trade of a signal, None when it is skipped:
\* entry at the first row at or after the signal, exit at the first row 3
\* minutes later or else at the last row.
PaperTrade(sig, prices) ==
    LET rows == PriceIndex(prices, sig.ticker)
        first == FirstAtOrAfter(rows, sig.ts)
        entry == IF first = None THEN None ELSE PriceOf(first[1])
        later == FirstAtOrAfter(rows, sig.ts + 180)
        found == IF later = None THEN None ELSE PriceOf(later[1])
        exit_price == IF Truthy(found) THEN found ELSE PriceOf(rows[Len(rows)])
    IN  IF sig.strength < 5 \/ rows = <<>> \/ ~Truthy(entry) \/ ~Truthy(exit_price) THEN None
        ELSE Some((IF sig.side = "yes" THEN exit_price[1] - entry[1]
                   ELSE entry[1] - exit_price[1]) - PaperFees(entry[1]))

\* _paper_trade, with the keys that are read afterwards.  win_rate is in
\* tenths.
PaperTrades(sigs, prices) ==
    LET taken == SelectSeq(sigs, LAMBDA sig : PaperTrade(sig, prices) # None)
        pnls == [i \in 1..Len(taken) |-> PaperTrade(taken[i], prices)[1]]
        wins == Cardinality({i \in 1..Len(pnls) : pnls[i] > 0})
        losses == Cardinality({i \in 1..Len(pnls) : pnls[i] < 0})
    IN  [trades |-> Len(pnls), wins |-> wins, losses |-> losses,
         win_rate |-> Round1(wins * 100, Max(1, wins + losses)),
         total_net_pnl |-> SumSeq(pnls)]

\* _calibrate_model gives sigma_estimate only from a game with 10 snapshots
\* or more and bias only from a market with 10 price rows or more and a
\* model value in its snapshots: None for both in the sessions modelled
\* here.  sigma_estimate is in tenths, bias in hundredths of a cent.
NoCalibration == [sigma_estimate |-> None, bias |-> None]

\* A recommendation: its key and the values its text is made of.
Recommendation(key, current, recommended) ==
    [key |-> key, current |-> current, recommended |-> recommended]

\* _recommend_params: recs, as the set of its entries.  current_sigma is
\* the 11.0 written in the function, in tenths.
RecommendParams(scores, cal, paper) ==
    (IF Truthy(cal.sigma_estimate) /\ Abs(cal.sigma_estimate[1] - 110) > 10
     THEN {Recommendation(<<"sigma">>, Some(110), cal.sigma_estimate)} ELSE {})
    \cup (IF paper.trades >= 5 /\ paper.win_rate > 650
          THEN {Recommendation(<<"edge_threshold">>, Some(3), Some(2))}
          ELSE IF paper.trades >= 5 /\ paper.win_rate < 400
          THEN {Recommendation(<<"edge_threshold">>, Some(3), Some(5))}
          ELSE {})
    \cup {Recommendation(<<"disable", strat>>, None, None) :
              strat \in {x \in DOMAIN scores :
                            scores[x].graded >= 3 /\ scores[x].grade \in {"D", "F"}}}
    \cup {Recommendation(<<"increase", strat>>, None, None) :
              strat \in {x \in DOMAIN scores :
                            scores[x].graded >= 3 /\ scores[x].grade = "A"}}
    \cup (IF cal.bias # None /\ Abs(cal.bias[1]) > 300
          THEN {Recommendation(<<"model_bias">>, cal.bias, None)} ELSE {})

\* The value of a set of one, for results that are computed once and read
\* many times.
TheOne(S) == CHOOSE x \in S : TRUE

\* analyze(): the report, with the parts that are read afterwards; cal is
\* what _calibrate_model made of the games and snapshots of the date.
Analyze(sigs, prices, cal) ==
    TheOne({TheOne({[signal_grades |-> grades,
                     strategy_scores |-> scores,
                     model_calibration |-> cal,
                     paper_trades |-> paper,
                     parameter_recommendations |-> RecommendParams(scores, cal, paper)] :
                        scores \in {ScoreStrategies(grades)},
                        paper \in {PaperTrades(sigs, prices)}}) :
               grades \in {GradeSignals(sigs, prices)}})

\* cumulative.json after the report of a date is added to it; of its sums
\* the number of signals is carried.
UpdateCumulative(l, date, sigs, report) ==
    [l EXCEPT
        !.sessions_analyzed = @ + 1,
        !.total_signals = @ + Len(sigs),
        !.parameter_history =
            IF report.parameter_recommendations # {}
            THEN Append(@, [date |-> date,
                            recommendations |-> report.parameter_recommendations])
            ELSE @,
        !.sigma_observations =
            IF Truthy(report.model_calibration.sigma_estimate)
            THEN Append(@, [date |-> date, sigma |-> report.model_calibration.sigma_estimate[1]])
            ELSE @]

\* run_session_analysis() called at time t for the session begun at
\* session_ts, prices being data/prices/<date>.jsonl as the snapshots of the
\* scans left it.  SessionAnalyzer() loads the files of the date of t;
\* without signals and prices nothing is analysed; otherwise the report is
\* saved as learning/sessions/<date>.json and cumulative.json is updated,
\* unless a step raised before.  Nothing else is written.
RunSessionAnalysis(l, t, session_ts, sigs, prices, cal, raised) ==
    LET loaded == SignalFile(sigs, DateOf(t))
        analysed == (loaded # <<>> \/ prices # <<>>) /\ ~raised
    IN  TheOne({[(IF analysed THEN UpdateCumulative(l, DateOf(t), file, report[1]) ELSE l)
                    EXCEPT !.runs =
                        Append(@, [at |-> t, date |-> DateOf(t), session |-> session_ts,
                                   signals |-> file, prices |-> prices,
                                   analysed |-> analysed, report |-> report])] :
                   file \in {loaded},
                   report \in {IF analysed THEN Some(Analyze(loaded, prices, cal))
                               ELSE None}})

\* The price file at a session's end at time t: empty, or with the snapshot
\* of a scan a minute before.
SessionPriceFiles(t) == {<<>>, <<PriceRow(t - 60, HomeMarket, Some(58), Some(56))>>}

\* ------------------------------------------------------------------------
\* SpecLoop: Orchestrator.run over the cycles of one active window
\* ------------------------------------------------------------------------
LIVE_POLL_INTERVAL == 15
AUTH_RECHECK_CYCLES == 120
ERROR_SLEEP == 30

\* The slate has no live game before this cycle of the session.
LoopFirstLive == 119
LoopMaxCycles == 120

LoopMarket == HomeMarket

\* The second half has just begun and the home team leads by a few points;
\* the feed rounds the clock to a tenth of a minute.
LoopSnapshots == {Game(36, 32, 190, 2), Game(38, 32, 188, 2)}
LoopQuotes == {Quote(58, 56, 60)}
LoopPriceLevels == {50, 70}

\* get_balance's answers to _refresh_bankroll.
LoopBalanceAnswers == {None, Some(2000)}

\* check_auth: without a client auth_ok is left alone; otherwise it is
\* whether get_balance returned.
CheckAuth(o, ok) == IF ~client THEN o ELSE [o EXCEPT !.auth_ok = ok]

\* A faulty run(): an exception of the cycle ends the loop.
Uncaught(o, call) == [o EXCEPT !.pc = "stopped", !.raised = call]

\* run()'s except Exception clause: log, traceback, then time.sleep(30).
Caught(o, call) == [o EXCEPT !.pc = "caught", !.raised = call]

\* The try blocks inside _active_cycle log the exception and the cycle goes on.
CaughtInCycle(o, call) == [o EXCEPT !.raised = call]

\* for sig in self.strategy.signals[-5:]: if sig.ticker == ticker and
\* (time.time() - sig.ts) < 2
Fresh(sigs, ticker) ==
    SelectSeq(LastN(sigs, 5), LAMBDA sig : sig.ticker = ticker /\ now - sig.ts < 2)

\* StrategySignal.to_dict(), with the keys on_signal and Position read.
ToDict(sig) ==
    [strategy |-> sig.strategy, ticker |-> sig.ticker, side |-> sig.side,
     strength |-> sig.strength, edge |-> sig.edge, market_price |-> Some(sig.market_price),
     model_fv |-> sig.model_fv, minutes_remaining |-> sig.game_context.minutes_remaining]

LoopInit == InitExecutor(None, {}, None) /\ InitStrategyEngine /\ NoModelCall

\* run() up to its loop: check_auth.
RunStep ==
    /\ orch.pc = "run"
    /\ \E ok \in BOOLEAN : orch' = [CheckAuth(orch, ok) EXCEPT !.pc = "loop"]
    /\ venue_calls' = NoCalls
    /\ UNCHANGED <<now, execVars, engineVars, modelVars, learnVars>>

\* _start_session: check_auth, then the scan, the schedule and the session's
\* event, any of which may raise; session_start is set before them.
StartSessionStep ==
    /\ orch.pc = "loop"
    /\ ~orch.session_start
    /\ \E ok \in BOOLEAN, raised \in BOOLEAN :
        LET o == [CheckAuth(orch, ok) EXCEPT !.session_start = TRUE, !.session_ts = now,
                                             !.cycle_count = 0, !.raised = "none"]
        IN  orch' = IF raised THEN Caught(o, "run_full_scan") ELSE o
    /\ venue_calls' = NoCalls
    /\ UNCHANGED <<now, execVars, engineVars, modelVars, learnVars>>

\* The snapshot follows the last one the engine has of the game.
FollowsLast(game) ==
    LET history == Get(game_states, game.espn_id, <<>>)
    IN  history # <<>> => Follows(history[Len(history)], game)

\* _active_cycle up to the feeding of signals: the ESPN poll and, for the
\* matched market of a live game, on_price_update and update_model_fv.  The
\* poll finds nothing or raises (quiet), or it finds the game, which is live
\* from the cycle first_live to the cycle last_live of the session, with
\* one of the snapshots and the market at one of the quotes.
Poll(first_live, last_live, snapshots, quotes) ==
    /\ orch.pc = "loop"
    /\ orch.session_start
    /\ venue_calls' = NoCalls
    /\ UNCHANGED <<modelVars, learnVars>>
    /\ \/ /\ \E raised \in BOOLEAN :
               LET o == [orch EXCEPT !.cycle_count = @ + 1, !.pc = "feed", !.feed = <<>>,
                                     !.raised = "none"]
               IN  orch' = IF raised THEN CaughtInCycle(o, "get_live_games") ELSE o
          /\ UNCHANGED <<now, execVars, engineVars>>
       \/ /\ orch.cycle_count + 1 >= first_live
          /\ orch.cycle_count + 1 <= last_live
          /\ \E game \in snapshots, mkt \in quotes :
               LET eng == Observe(StrategyEngine, now, LoopMarket, mkt, game)
               IN  /\ FollowsLast(game)
                   /\ EngineBecomes(eng)
                   /\ UpdateModelFv(LoopMarket, MarketFv(LoopMarket, game), MarketPrice(mkt))
                   /\ orch' = [orch EXCEPT !.cycle_count = @ + 1, !.pc = "feed",
                                           !.feed = Fresh(eng.signals, LoopMarket),
                                           !.raised = "none"]

PollStep ==
    /\ orch.cycle_count < LoopMaxCycles
    /\ Poll(LoopFirstLive, LoopMaxCycles, LoopSnapshots, LoopQuotes)

\* self.executor.on_signal(sig.to_dict()), which returns at once when the
\* Executor has no client, then log_event("signal", ...), whose exception
\* the poll's try block catches: the rest is not fed.  time.time() - sig.ts
\* < 2 is read again for each signal: when the calls made for this one took
\* two seconds or more (slow; a request may take ten), the rest is stale.
FeedStep ==
    /\ orch.pc = "feed"
    /\ orch.feed # <<>>
    /\ UNCHANGED <<engineVars, modelVars, learnVars>>
    /\ \E bal \in LoopBalanceAnswers, order \in OrderAnswers, raised \in BOOLEAN,
          slow \in BOOLEAN :
        /\ IF client
           THEN /\ OnSignal(ToDict(Head(orch.feed)), bal, order)
                /\ venue_calls' = OnSignalCalls(ToDict(Head(orch.feed)), bal, order)
           ELSE /\ UNCHANGED <<now, execVars>>
                /\ venue_calls' = [NoCalls EXCEPT !.handler = "on_signal"]
        /\ orch' = IF raised
                   THEN CaughtInCycle([orch EXCEPT !.feed = <<>>], "log_event")
                   ELSE [orch EXCEPT !.feed = IF slow THEN <<>> ELSE Tail(@),
                                     !.raised = "none"]

\* if self.auth_ok and self.executor.positions: check_positions, outside any
\* try block of the cycle.  The cycle goes on from the record o.
LoopCheck(answers, o) ==
    /\ orch.pc = "feed"
    /\ orch.feed = <<>>
    /\ UNCHANGED <<engineVars, modelVars, learnVars>>
    /\ \/ /\ ~(orch.auth_ok /\ positions # <<>>)
          /\ orch' = [orch EXCEPT !.pc = "sleep", !.raised = "none"]
          /\ venue_calls' = NoCalls
          /\ UNCHANGED <<now, execVars>>
       \/ /\ orch.auth_ok
          /\ \E prices \in PriceMaps(LoopPriceLevels), fills \in answers :
               \/ /\ CheckPositions(prices, fills)
                  /\ venue_calls' = CheckPositionsCalls(prices, fills, {})
                  /\ orch' = [o EXCEPT !.pc = "sleep", !.raised = "none"]
               \/ \E appended \in BOOLEAN :
                    /\ CheckPositionsRaises(prices, fills, appended)
                    /\ venue_calls' =
                           ClosingCalls(ManageUntilExit(LoopStart(fills), 1, prices).acc,
                                        fills, {})
                    /\ orch' = Caught(o, IF appended THEN "log_event" ELSE "log_trade")

LoopCheckStep == LoopCheck(FillAnswers, orch)

\* A faulty cycle: the loop comes round again after five seconds.
SleepStepBrief ==
    /\ orch.pc = "sleep"
    /\ \E ok \in BOOLEAN :
        orch' = [(IF ~orch.auth_ok /\ orch.cycle_count % AUTH_RECHECK_CYCLES = 0
                  THEN CheckAuth(orch, ok) ELSE orch)
                 EXCEPT !.pc = "loop", !.raised = "none"]
    /\ now' = now + 5
    /\ venue_calls' = NoCalls
    /\ UNCHANGED <<execVars, engineVars, modelVars, learnVars>>

\* The end of the cycle: the auth re-check every AUTH_RECHECK_CYCLES cycles
\* while auth_ok is False, then time.sleep(LIVE_POLL_INTERVAL).
SleepStep ==
    /\ orch.pc = "sleep"
    /\ \E ok \in BOOLEAN :
        orch' = [(IF ~orch.auth_ok /\ orch.cycle_count % AUTH_RECHECK_CYCLES = 0
                  THEN CheckAuth(orch, ok) ELSE orch)
                 EXCEPT !.pc = "loop", !.raised = "none"]
    /\ now' = now + LIVE_POLL_INTERVAL
    /\ venue_calls' = NoCalls
    /\ UNCHANGED <<execVars, engineVars, modelVars, learnVars>>

\* The except Exception clause of run(): log, traceback, time.sleep(30).
CaughtStep ==
    /\ orch.pc = "caught"
    /\ orch' = [orch EXCEPT !.pc = "loop", !.raised = "none"]
    /\ now' = now + ERROR_SLEEP
    /\ venue_calls' = NoCalls
    /\ UNCHANGED <<execVars, engineVars, modelVars, learnVars>>

\* A KeyboardInterrupt during one of the two sleeps ends run(): through the
\* except KeyboardInterrupt clause and _end_session, which may itself raise,
\* or straight out of the except Exception clause.
StopStep ==
    /\ orch.pc \in {"sleep", "caught"}
    /\ \E ended \in BOOLEAN :
        orch' = [orch EXCEPT !.pc = "stopped", !.interrupted = TRUE, !.raised = "none",
                             !.session_start = IF orch.pc = "sleep" /\ ended THEN FALSE ELSE @]
    /\ IF orch.pc = "sleep" /\ orch.session_start
       THEN \E prices \in SessionPriceFiles(now), raised \in BOOLEAN :
                learning' = RunSessionAnalysis(learning, now, orch.session_ts, signals,
                                               prices, NoCalibration, raised)
       ELSE UNCHANGED learning
    /\ venue_calls' = NoCalls
    /\ UNCHANGED <<now, execVars, engineVars, modelVars>>

LoopNext ==
    RunStep \/ StartSessionStep \/ PollStep \/ FeedStep \/ LoopCheckStep \/ SleepStep
    \/ CaughtStep \/ StopStep

\* The loop is one thread: unless it is interrupted, a cycle that has fed
\* its signals goes on to the position check and to its sleep, and the
\* except clause returns from its own.
SpecLoop ==
    /\ LoopInit
    /\ [][LoopNext]_vars
    /\ WF_vars(LoopCheckStep)
    /\ WF_vars(SleepStep)
    /\ WF_vars(CaughtStep)

\* C19, as stated: while auth_ok is False no create_order call is made for a
\* signal.
C19_AsStated ==
    ~orch.auth_ok =>
        ~(venue_calls.handler = "on_signal" /\ venue_calls.orders # <<>>)

\* C23, as stated: a cycle that comes to its position check with a position
\* live runs check_positions, whatever auth_ok is.
C23_AsStatedStep ==
    (orch.pc = "feed" /\ orch'.pc # "feed" /\ positions # <<>>)
        => venue_calls'.handler = "check_positions"

C23_AsStated == [][C23_AsStatedStep]_vars

\* C20: a step of the loop in which a feed, venue or logging call raised
\* does not end run(); run() has ended only if a KeyboardInterrupt was
\* delivered; and after every such exception the loop is back at the top of
\* its while, where the next cycle begins, unless it is interrupted first.
C20_LoopSurvives ==
    /\ [](orch.raised # "none" => orch.pc # "stopped")
    /\ [](orch.pc = "stopped" => orch.interrupted)
    /\ (orch.raised # "none") ~> (orch.pc = "loop" \/ orch.interrupted)

\* check_positions has been left by an exception of the trade log while a
\* position was being closed, and run() is in its except clause.
C20_Witness ==
    /\ orch.raised = "log_trade"
    /\ orch.pc = "caught"
    /\ ~orch.interrupted
    /\ \E i \in 1..Len(positions) : positions[i].exit_reason # "none"
    /\ trade_count = 1
    /\ closed_trades = <<>>

\* ------------------------------------------------------------------------
\* SpecSession: Orchestrator.run across the end of the active window, in
\* data-collection mode (no key file, so no client)
\* ------------------------------------------------------------------------
SLEEP_CHUNK == 300

\* The process is started half a minute before midnight, or a minute before
\* the window closes.
SessionStarts == {23 * 3600 + 59 * 60 + 30, 24 * 3600 + 59 * 60}
SessionMaxTime == 151260
SessionMaxRuns == 3
SessionLastLive == 2

\* Orchestrator.__init__ when the key file is missing: Executor(None).
SessionInit ==
    /\ now \in SessionStarts
    /\ client = FALSE
    /\ positions = <<>>
    /\ recent_tickers = EmptyDict
    /\ recent_events = EmptyDict
    /\ known_kalshi_tickers = {}
    /\ bankroll = 0
    /\ bankroll_ts = 0
    /\ target_position = 60
    /\ exits = LoadTunedExits(None)
    /\ tuned_file = None
    /\ closed_trades = <<>>
    /\ total_pnl = 0
    /\ total_invested = 0
    /\ trade_count = 0
    /\ venue_calls = NoCalls
    /\ orch = NewOrchestrator
    /\ learning = NewLearning
    /\ InitStrategyEngine
    /\ NoModelCall

\* while True: if is_active_window(): if not self.session_start:
\* self._start_session()
SessionStartStep ==
    /\ IsActiveWindow(now)
    /\ StartSessionStep

\* ... self._active_cycle()
SessionPollStep ==
    /\ IsActiveWindow(now)
    /\ now < SessionMaxTime
    /\ Poll(1, SessionLastLive, LoopSnapshots, LoopQuotes)

\* else: if self.session_start: self._end_session().  The daily report and
\* run_session_analysis are wrapped in try blocks; get_session_stats, which
\* parses today's trade log, is not, and when it raises session_start is
\* left set and run()'s except clause takes over.  Otherwise session_start
\* is cleared and the call ends with time.sleep(LIVE_POLL_INTERVAL).
EndSessionStep ==
    /\ orch.pc = "loop"
    /\ ~IsActiveWindow(now)
    /\ orch.session_start
    /\ Len(learning.runs) < SessionMaxRuns
    /\ \E prices \in SessionPriceFiles(now), raised \in BOOLEAN :
        learning' = RunSessionAnalysis(learning, now, orch.session_ts, signals,
                                       prices, NoCalibration, raised)
    /\ \/ /\ orch' = Caught(orch, "get_session_stats")
          /\ UNCHANGED now
       \/ /\ orch' = [orch EXCEPT !.session_start = FALSE, !.session_ts = 0,
                                  !.raised = "none"]
          /\ now' = now + LIVE_POLL_INTERVAL
    /\ venue_calls' = NoCalls
    /\ UNCHANGED <<execVars, engineVars, modelVars>>

\* The next 18:00 after t, for t outside the window.
NextWake(t) == DateOf(t) * 86400 + WAKE_HOUR * 3600

\* else: self._sleep_cycle(): sleep in chunks of at most five minutes until
\* the window opens.
SleepCycleStep ==
    /\ orch.pc = "loop"
    /\ ~IsActiveWindow(now)
    /\ ~orch.session_start
    /\ now < SessionMaxTime
    /\ now' = now + Min(SLEEP_CHUNK, NextWake(now) - now)
    /\ orch' = [orch EXCEPT !.raised = "none"]
    /\ venue_calls' = NoCalls
    /\ UNCHANGED <<execVars, engineVars, modelVars, learnVars>>

SessionNext ==
    RunStep \/ SessionStartStep \/ SessionPollStep \/ FeedStep \/ LoopCheckStep
    \/ SleepStep \/ EndSessionStep \/ SleepCycleStep \/ CaughtStep \/ StopStep

SpecSession == SessionInit /\ [][SessionNext]_vars

\* The runs of the analysis made for the session begun at session_ts.
RunsFor(l, session_ts) == {i \in DOMAIN l.runs : l.runs[i].session = session_ts}

\* C21, as stated: run_session_analysis is run once per session, at its
\* end: no session has two runs, a step that ends a session leaves it with
\* a run, and a run is made only once the window is over or the loop has
\* been interrupted, also when a step of _end_session raises.
C21_AsStatedStep ==
    /\ \A i \in DOMAIN learning'.runs :
           Cardinality(RunsFor(learning', learning'.runs[i].session)) = 1
    /\ (orch.session_start /\ ~orch'.session_start) =>
           RunsFor(learning', orch.session_ts) # {}
    /\ Len(learning'.runs) > Len(learning.runs) =>
           /\ orch.session_start
           /\ ~IsActiveWindow(now) \/ orch'.interrupted

C21_AsStated == [][C21_AsStatedStep]_vars

\* C22, as stated: every run of the analysis made when the window has
\* closed has loaded every signal emitted since the start of the session it
\* was run for.
C22_AsStated ==
    \A i \in DOMAIN learning.runs :
        ~IsActiveWindow(learning.runs[i].at) =>
            \A k \in DOMAIN signals :
                (signals[k].ts >= learning.runs[i].session
                 /\ signals[k].ts <= learning.runs[i].at)
                    => \E m \in DOMAIN learning.runs[i].signals :
                           learning.runs[i].signals[m] = signals[k]

\* ------------------------------------------------------------------------
\* SpecFeed: the cycles of a session in which several detectors fire on one
\* observation
\* ------------------------------------------------------------------------
FeedMaxCycles == 3

\* Early in the second half the home team leads by eight and then by ten;
\* the market trades well below the model's value, on a wide spread.
FeedSnapshots == {Game(40, 32, 190, 2), Game(42, 32, 188, 2)}
FeedQuotes == {Quote(70, 68, 90)}

FeedPollStep ==
    /\ orch.cycle_count < FeedMaxCycles
    /\ Poll(1, FeedMaxCycles, FeedSnapshots, FeedQuotes)

FeedNext ==
    RunStep \/ StartSessionStep \/ FeedPollStep \/ FeedStep \/ LoopCheckStep \/ SleepStep
    \/ CaughtStep \/ StopStep

SpecFeed == LoopInit /\ [][FeedNext]_vars

\* C24, as stated: the signals an observation emits are exactly the ones
\* the cycle sets out to hand over, each is handed to on_signal by a step of
\* its own with the rest kept for theirs, and the cycle goes on to its
\* position check only once none is left.
C24_AsStatedStep ==
    /\ (orch.pc = "loop" /\ orch'.pc = "feed") =>
           orch'.feed = SubSeq(signals', Len(signals) + 1, Len(signals'))
    /\ (orch.pc = "feed" /\ orch.feed # <<>>) =>
           /\ venue_calls'.handler = "on_signal"
           /\ orch'.feed = Tail(orch.feed)
    /\ (orch.pc = "feed" /\ orch'.pc # "feed") => orch.feed = <<>>

C24_AsStated == [][C24_AsStatedStep]_vars

\* ------------------------------------------------------------------------
\* SpecLearner: run_session_analysis over the files of a date
\* ------------------------------------------------------------------------
LearnerMaxSignals == 3
LearnerMaxRows == 2

\* The signals of the file: one strategy on the home market at two times,
\* and one signal on the away market.
LearnerSignals ==
    {StrategySignal(t, "halftime_edge", HomeMarket, side, 5, 6, 40, 46, None) :
         t \in {StartTime, StartTime + 100}, side \in {"yes", "no"}}
    \cup {StrategySignal(StartTime, "halftime_edge", AwayMarket, "yes", 5, 6, 40, 46, None)}

\* The rows of the price file: snapshots at the first signal, 5 minutes
\* and 400 seconds after it, with and without prices.
LearnerRows ==
    {PriceRow(t, HomeMarket, q[1], q[2]) :
         t \in {StartTime, StartTime + 300, StartTime + 400},
         q \in {<<None, None>>, <<Some(40), None>>, <<Some(43), None>>, <<None, Some(41)>>}}
    \cup {PriceRow(StartTime, AwayMarket, None, None)}

\* Files are appended to as time passes: their lines are in the order of ts.
InOrderOfTs(s) == \A i \in 1..(Len(s) - 1) : s[i].ts <= s[i + 1].ts

SeqsUpTo(S, n) == UNION {[1..k -> S] : k \in 0..n}

LearnerSignalFiles == {s \in SeqsUpTo(LearnerSignals, LearnerMaxSignals) : InOrderOfTs(s)}
LearnerPriceFiles == {s \in SeqsUpTo(LearnerRows, LearnerMaxRows) : InOrderOfTs(s)}

\* What _calibrate_model made of the games of the date: nothing, an
\* estimate of 11.5 (within 1 of the 11.0), an estimate of 13.4 and a bias
\* of 4.25 cents.
LearnerCalibrations ==
    {NoCalibration,
     [sigma_estimate |-> Some(115), bias |-> None],
     [sigma_estimate |-> Some(134), bias |-> Some(425)]}

\* tuned_exits.json: absent, or written by an earlier session's tuning.
LearnerTunedFiles ==
    {None, Some([DEFAULT_EXITS EXCEPT !.stop_loss_pct = 19, !.time_exit = 570])}

\* The executor of the process starts from tuned_exits.json, if there is one.
LearnerInit ==
    /\ \E file \in LearnerTunedFiles : InitExecutor(file, {}, None)
    /\ InitStrategyEngine
    /\ NoModelCall

\* A faulty analysis: the recommended sigma is written to the model.
AnalyzeStepApplying ==
    /\ learning.runs = <<>>
    /\ \E sigs \in LearnerSignalFiles, prices \in LearnerPriceFiles, cal \in LearnerCalibrations :
        /\ learning' = RunSessionAnalysis(learning, now, 0, sigs, prices, cal, FALSE)
        /\ sigma' = IF /\ learning'.runs[1].analysed
                       /\ Truthy(cal.sigma_estimate)
                       /\ Abs(cal.sigma_estimate[1] - 110) > 10
                    THEN cal.sigma_estimate[1] \div 10
                    ELSE sigma
    /\ UNCHANGED <<now, execVars, engineVars, model_args, model_value, venueVars, orchVars>>

\* run_session_analysis(date) over the files of the date.
AnalyzeStep ==
    /\ learning.runs = <<>>
    /\ \E sigs \in LearnerSignalFiles, prices \in LearnerPriceFiles, cal \in LearnerCalibrations :
        learning' = RunSessionAnalysis(learning, now, 0, sigs, prices, cal, FALSE)
    /\ UNCHANGED <<now, execVars, engineVars, modelVars, venueVars, orchVars>>

LearnerNext == AnalyzeStep

SpecLearner == LearnerInit /\ [][LearnerNext]_vars

\* The last report saved, and the records of a strategy in it.
LastRun == learning.runs[Len(learning.runs)]
LastReport == LastRun.report[1]

\* No row of the signal's ticker at or after the 5-minute offset.
NoForwardQuote(sig, prices) ==
    \A i \in 1..Len(prices) :
        prices[i].ticker = sig.ticker => prices[i].ts < sig.ts + 300

\* s without its i-th element.
Without(s, i) == SubSeq(s, 1, i - 1) \o SubSeq(s, i + 1, Len(s))

\* The i-th signal of the report counts for nothing in its strategy's wins,
\* losses, P&L totals and ratio: they are what the other records alone give.
ExcludedFromScores(report, i) ==
    LET strat == report.signal_grades[i].strategy
        score == report.strategy_scores[strat]
        others == ByStrategy(Without(report.signal_grades, i), strat)
        rest == ScoreOf(others, Graded(others))
    IN  /\ score.wins = rest.wins
        /\ score.losses = rest.losses
        /\ score.total_pnl_5m = rest.total_pnl_5m
        /\ score.avg_pnl_5m = rest.avg_pnl_5m
        /\ score.win_rate = rest.win_rate
        /\ score.sharpe = rest.sharpe
        /\ score.grade = rest.grade
        /\ score.graded = rest.graded

\* C25, as stated: a signal without a quote at or after the 5-minute offset
\* is graded "incomplete" and is excluded from its strategy's scores.
C25_AsStated ==
    \A r \in 1..Len(learning.runs) :
        learning.runs[r].analysed =>
            \A i \in 1..Len(learning.runs[r].signals) :
                NoForwardQuote(learning.runs[r].signals[i], learning.runs[r].prices) =>
                    /\ learning.runs[r].report[1].signal_grades[i].grade = "incomplete"
                    /\ ExcludedFromScores(learning.runs[r].report[1], i)

\* C25, amended: a signal without a quote at or after the 5-minute offset is
\* excluded from its strategy's wins, losses, P&L totals and ratio; it is
\* graded "no_data" when the file has no row of its ticker, "no_price" when
\* neither the first row at or after the signal nor, that failing, the last
\* row gives a price, and "incomplete" otherwise.
C25_Ungraded ==
    \A r \in 1..Len(learning.runs) :
        learning.runs[r].analysed =>
            \A i \in 1..Len(learning.runs[r].signals) :
                LET sig == learning.runs[r].signals[i]
                    rows == PriceIndex(learning.runs[r].prices, sig.ticker)
                    grade == learning.runs[r].report[1].signal_grades[i].grade
                IN  NoForwardQuote(sig, learning.runs[r].prices) =>
                        /\ ExcludedFromScores(learning.runs[r].report[1], i)
                        /\ grade = IF rows = <<>> THEN "no_data"
                                   ELSE IF EntryPrice(rows, sig.ts) \in {None, Some(0)}
                                   THEN "no_price"
                                   ELSE "incomplete"

\* Two signals of the strategy are scored and a third, with no row at or
\* after its 5-minute offset, is graded "incomplete".
C25_Witness ==
    /\ learning.runs # <<>>
    /\ LastRun.analysed
    /\ Len(LastRun.signals) = 3
    /\ NoForwardQuote(LastRun.signals[3], LastRun.prices)
    /\ LastReport.signal_grades[3].grade = "incomplete"
    /\ LastReport.strategy_scores["halftime_edge"].graded = 2
    /\ LastReport.strategy_scores["halftime_edge"].total_signals = 3
    /\ LastReport.strategy_scores["halftime_edge"].total_pnl_5m # 0

\* C26: a step in which the analysis runs leaves the model's SIGMA, the
\* active exit parameters and tuned_exits.json as they were; what it
\* recommends is in the report it saves and, when there is any, appended
\* with the date to cumulative.json's parameter_history.
C26_AdvisoryStep ==
    Len(learning'.runs) > Len(learning.runs) =>
        LET run == learning'.runs[Len(learning'.runs)]
        IN  /\ sigma' = sigma
            /\ exits' = exits
            /\ tuned_file' = tuned_file
            /\ run.analysed =>
                   LET recs == run.report[1].parameter_recommendations
                   IN  learning'.parameter_history =
                           IF recs = {} THEN learning.parameter_history
                           ELSE Append(learning.parameter_history,
                                       [date |-> run.date, recommendations |-> recs])

C26_AdvisoryOnly == [][C26_AdvisoryStep]_vars

\* The analysis recommended a sigma of 13.4 against the 11.0 it takes as
\* current and the disabling of a strategy, beside a tuned set that is
\* active and persisted: SIGMA is 12 and the set is the tuned one.
C26_Witness ==
    /\ learning.runs # <<>>
    /\ LastRun.analysed
    /\ Recommendation(<<"sigma">>, Some(110), Some(134)) \in LastReport.parameter_recommendations
    /\ Recommendation(<<"disable", "halftime_edge">>, None, None)
           \in LastReport.parameter_recommendations
    /\ Len(learning.parameter_history) = 1
    /\ sigma = SIGMA
    /\ tuned_file # None
    /\ exits = tuned_file[1]
    /\ exits # DEFAULT_EXITS

\* ------------------------------------------------------------------------
\* The model-edge rule and the trailing stop, over SpecExit
\* ------------------------------------------------------------------------
\* The position a record was made of, as it stood before the step.
ClosedPosition(r) == LiveAt(positions, r.ticker)

\* C28: a trade is closed as model_exit only when the position's edge, the
\* one of its last model update, is at or below edge_exit and it has had two
\* model updates or more, all of them while filled: a new position has none,
\* a step adds at most one, and a position that is unfilled before a step
\* has after it the count, the edge and the model value it had.
C28_ModelExitStep ==
    /\ \A k \in 1..Len(NewRecords) :
          NewRecords[k].exit_reason = "model_exit" =>
              /\ NewRecords[k].edge_updates >= 2
              /\ NewRecords[k].edge_at_exit <= NewRecords[k].exit_params.edge_exit
              /\ NewRecords[k].exit_params = exits
              /\ ClosedPosition(NewRecords[k]).edge_updates = NewRecords[k].edge_updates
              /\ ClosedPosition(NewRecords[k]).last_edge = NewRecords[k].edge_at_exit
    /\ \A t \in LiveTickers(positions') :
          IF t \in LiveTickers(positions)
             /\ LiveAt(positions, t).entry_time = LiveAt(positions', t).entry_time
          THEN /\ LiveAt(positions', t).edge_updates - LiveAt(positions, t).edge_updates
                      \in {0, 1}
               /\ ~LiveAt(positions, t).filled =>
                      /\ LiveAt(positions', t).edge_updates = 0
                      /\ LiveAt(positions', t).last_edge = LiveAt(positions, t).last_edge
                      /\ LiveAt(positions', t).last_model_fv = LiveAt(positions, t).last_model_fv
          ELSE /\ LiveAt(positions', t).edge_updates = 0
               /\ ~LiveAt(positions', t).filled

C28_ModelExit == [][C28_ModelExitStep]_vars

\* A position bought at 40 on a signal's edge of 8 was closed as model_exit
\* at a gain, after two updates put the model two cents below the market.
C28_Witness ==
    \E k \in 1..Len(closed_trades) :
        /\ closed_trades[k].exit_reason = "model_exit"
        /\ closed_trades[k].edge_updates = 2
        /\ closed_trades[k].edge_at_exit = -2
        /\ closed_trades[k].exit_params.edge_exit = -1
        /\ closed_trades[k].pnl_cents > 0

AskFills(o) ==
    IF ShouldCheckFills
    THEN [o EXCEPT !.fills_asked = Append(@, [at |-> now, cycle |-> o.cycle_count])]
    ELSE o

\* check_positions in the cycle, get_fills raising or answering.
FillsCheckStep == LoopCheck(VenueFillAnswers, AskFills(orch))

FillsNext ==
    RunStep \/ StartSessionStep \/ PollStep \/ FeedStep \/ FillsCheckStep \/ SleepStep
    \/ CaughtStep \/ StopStep

SpecFills == LoopInit /\ [][FillsNext]_vars

FillsAsked == orch.fills_asked

ObservationTimes ==
    UNION {{Get(price_history, ticker, <<>>)[i].ts :
                i \in 1..Len(Get(price_history, ticker, <<>>))} : ticker \in Markets}

\* C32, as stated: the history of the game is in the order of the feed and
\* holds exactly one snapshot for each feed observation of the game.
C32_AsStated ==
    LET history == Get(game_states, "401", <<>>)
    IN  /\ \A i \in 1..Len(history) - 1 : Follows(history[i], history[i + 1])
        /\ Len(history) = Cardinality(ObservationTimes)


\* ------------------------------------------------------------------------
\* SpecDampen: calls of fair_value_cents with pregame spreads around 4 and 8
\* ------------------------------------------------------------------------
\* Spreads, in half points, of 3.5 to 10 points either way.
DampenSpreads == {s \in (-20)..20 : Abs(s) \in {7, 8, 9, 12, 15, 16, 17, 20}}
DampenMinutes == {0, 100, 400}

DampenCalls ==
    [lead : ModelLeads, minutes_remaining : DampenMinutes, home : BOOLEAN,
     pregame_spread : DampenSpreads]

DampenInit ==
    /\ InitExecutor(None, {}, Some(2000))
    /\ InitStrategyEngine
    /\ model_args \in {Some(c) : c \in DampenCalls}
    /\ model_value = None
    /\ sigma = SIGMA

SpecDampen == DampenInit /\ [][ModelNext]_vars

\* The margin of the call whose value is held.
MarginOfCall ==
    Margin(model_args[1].minutes_remaining, model_args[1].home, model_args[1].pregame_spread)

\* C33, as stated: the weight is 100% up to 4 points, falls in a line to 50%
\* at 8 points, which makes it continuous, and is 50% beyond (the margin
\* times 8, the weight in 160ths).
C33_AsStated ==
    model_value # None =>
        LET s == model_args[1].pregame_spread
            a == Abs(s)
        IN  8 * MarginOfCall =
                s * model_args[1].minutes_remaining
                  * (IF a <= 8 THEN 160 ELSE IF a <= 16 THEN 160 - 10 * (a - 8) ELSE 80)

\* C33, amended: the weight is 100% up to 4 points, 100% less 10% for each
\* point above 4 up to 8 points, where it is 60%, and 50% beyond 8 points:
\* it is never below 50% and drops from 60% to 50% past 8 points.
C33_Weight ==
    model_value # None =>
        LET s == model_args[1].pregame_spread
            a == Abs(s)
        IN  /\ MarginOfCall =
                   s * model_args[1].minutes_remaining
                     * (IF a <= 8 THEN 20 ELSE IF a <= 16 THEN 20 - (a - 8) ELSE 10)
            /\ model_value[1] =
                   FairValueCents(model_args[1].lead, model_args[1].minutes_remaining,
                                  model_args[1].home, s)
            /\ Dampen(a) >= 10
            /\ Dampen(16) = 12 /\ Dampen(17) = 10

\* A spread of 8 points with the whole game to play: the margin is 4.8
\* points, the spread at a weight of 60%.
C33_Witness ==
    /\ model_value # None
    /\ model_args[1].pregame_spread = 16
    /\ model_args[1].minutes_remaining = 400
    /\ 20 * MarginOfCall = 12 * (16 * 400 * 20)


\* ------------------------------------------------------------------------
\* The momentum detector, over SpecStrategy
\* ------------------------------------------------------------------------
\* The signals a step has added to the engine's list.
NewSignals == SubSeq(signals', Len(signals) + 1, Len(signals'))

\* The runs of the two windows the detector reads in the history as the
\* step leaves it: history[-6:-2] and history[-4:].
WindowRuns ==
    LET history == Get(game_states', "401", <<>>)
        n == Len(history)
    IN  [earlier |-> CalcRun(SubSeq(history, n - 5, n - 2)),
         later |-> CalcRun(SubSeq(history, n - 3, n))]

\* C34, as stated: a momentum signal is emitted only when both windows show
\* a run of 5 points or more in the same direction and the model edge
\* exceeds 2 in that direction (yes for the home team's run, no for the
\* away team's).
C34_AsStatedStep ==
    \A k \in 1..Len(NewSignals) :
        NewSignals[k].strategy = "momentum" =>
            /\ Len(Get(game_states', "401", <<>>)) >= 6
            /\ NewSignals[k].edge > 2
            /\ \/ /\ NewSignals[k].side = "yes"
                  /\ WindowRuns.earlier >= 5 /\ WindowRuns.later >= 5
               \/ /\ NewSignals[k].side = "no"
                  /\ WindowRuns.earlier <= -5 /\ WindowRuns.later <= -5

C34_AsStated == [][C34_AsStatedStep]_vars


\* ------------------------------------------------------------------------
\* The high-water mark, over SpecExit
\* ------------------------------------------------------------------------
\* C35: a position's peak return starts at 0 and is never below 0; while the
\* position lives it never falls, and when it rises it is the return at the
\* price of that cycle; at the evaluation that closes the position it is at
\* least the return of that cycle and at least what it was before (the peak
\* and the returns in cents per contract, times 100).
C35_PeakStep ==
    /\ \A t \in LiveTickers(positions') :
          LET after == LiveAt(positions', t)
          IN  /\ after.peak_pnl_pct >= 0
              /\ IF t \in LiveTickers(positions)
                     /\ LiveAt(positions, t).entry_time = after.entry_time
                  THEN /\ after.peak_pnl_pct >= LiveAt(positions, t).peak_pnl_pct
                       /\ after.peak_pnl_pct # LiveAt(positions, t).peak_pnl_pct =>
                              /\ after.filled
                              /\ \E p \in ExitPriceLevels :
                                    after.peak_pnl_pct = 100 * (p - after.entry_price)
                  ELSE after.peak_pnl_pct = 0
    /\ \A k \in 1..Len(NewRecords) :
          /\ NewRecords[k].peak_num >= 0
          /\ NewRecords[k].peak_num >= RecordPnlNum(NewRecords[k])
          /\ NewRecords[k].peak_num >= ClosedPosition(NewRecords[k]).peak_pnl_pct

C35_HighWaterMark == [][C35_PeakStep]_vars

\* A position bought at 40 and seen at 42 is closed by the time exit with no
\* quote, at a return of 0: its peak is the 5% of the earlier cycle.
C35_Witness ==
    \E k \in 1..Len(closed_trades) :
        /\ closed_trades[k].exit_reason = "time_exit"
        /\ closed_trades[k].entry_price = 40
        /\ closed_trades[k].exit_price = 40
        /\ closed_trades[k].peak_num = 200
        /\ closed_trades[k].peak_pnl_pct = 50


\* ------------------------------------------------------------------------
\* The running totals, over SpecCooldown
\* ------------------------------------------------------------------------
\* The totals as the closed-trade history gives them.
TotalsAgree ==
    /\ trade_count = Len(closed_trades)
    /\ total_pnl = SumSeq([k \in 1..Len(closed_trades) |-> closed_trades[k].pnl_cents])
    /\ total_invested = SumSeq([k \in 1..Len(closed_trades) |-> closed_trades[k].total_cost])

\* The positions a step removes without a closed-trade record: the orders
\* check_positions cancelled.
Cancelled ==
    {t \in LiveTickers(positions) \ LiveTickers(positions') : NewRecordsOf(t) = 0}

C36_CancelStep ==
    /\ \A k \in 1..Len(NewRecords) :
          /\ NewRecords[k].ticker \in LiveTickers(positions) \ LiveTickers(positions')
          /\ NewRecordsOf(NewRecords[k].ticker) = 1
    /\ Cancelled # {} /\ NewRecords = <<>> =>
          /\ closed_trades' = closed_trades
          /\ trade_count' = trade_count
          /\ total_pnl' = total_pnl
          /\ total_invested' = total_invested

ResolveMaxElapsed == 290
ResolveMaxClosed == 11
ResolveTickSteps == {143}
ResolvePriceLevels == {33}

\* Eight and nine trades closed, the time exits among them at a loss: the
\* pass at the tenth close shortens the time exit.
ResolveHistories ==
    {Repeat(TookProfit, 5) \o Repeat(TimedOutDown, 3),
     Repeat(TookProfit, 5) \o Repeat(TimedOutDown, 4)}

\* current_prices holds the last YES price of the markets the orchestrator
\* has a price for: any of the live positions' markets, at one level.
ResolvePriceMaps ==
    {[t \in quoted |-> p] : quoted \in SUBSET PositionTickers, p \in ResolvePriceLevels}

ResolveInit ==
    /\ \E history \in ResolveHistories : InSession(None, history)
    /\ InitStrategyEngine
    /\ NoModelCall

ResolveSignalStep ==
    /\ OrdersOnly
    /\ \E signal \in VenueSignals :
        /\ OnSignal(signal, Some(2000), Some(<<"order", signal.ticker[2]>>))
        /\ venue_calls' = OnSignalCalls(signal, Some(2000), Some(<<"order", signal.ticker[2]>>))

ResolveCheckStep ==
    /\ OrdersOnly
    /\ \E prices \in ResolvePriceMaps, fills \in FillAnswers :
        /\ Len(closed_trades) + Cardinality(FilledAfter(fills)) <= ResolveMaxClosed
        /\ CheckPositions(prices, fills)
        /\ venue_calls' = CheckPositionsCalls(prices, fills, {})

ResolveTickStep ==
    /\ OrdersOnly
    /\ \E d \in ResolveTickSteps :
        /\ now + d <= StartTime + ResolveMaxElapsed
        /\ Tick(d)
        /\ venue_calls' = NoCalls

ResolveNext == ResolveSignalStep \/ ResolveCheckStep \/ ResolveTickStep

SpecResolve == ResolveInit /\ [][ResolveNext]_vars

\* C37: when check_positions has returned, no position that stays is
\* unfilled and older than ORDER_TIMEOUT, and none is filled and older than
\* the active time_exit.
C37_AsStatedStep ==
    venue_calls'.handler = "check_positions" =>
        \A i \in 1..Len(positions') :
            /\ ~positions'[i].filled => now - positions'[i].entry_time <= ORDER_TIMEOUT
            /\ positions'[i].filled => now - positions'[i].entry_time <= exits'.time_exit

C37_AsStated == [][C37_AsStatedStep]_vars


\* ------------------------------------------------------------------------
\* check_positions without a quote, over SpecExit
\* ------------------------------------------------------------------------
\* The records check_positions would append, called now with an empty
\* current_prices and no new fill.
UnquotedCloses ==
    LET acc == Managed(EmptyDict, Some({}))
    IN  SubSeq(acc.closed_trades, Len(closed_trades) + 1, Len(acc.closed_trades))

\* C38: a filled position for which check_positions has no quote is valued
\* at a return of 0, whichever side it holds, so that with thresholds above
\* 0 the call closes it by none of take profit, trailing stop and stop loss.
C38_AsStated ==
    positions # <<>> =>
        \A k \in 1..Len(UnquotedCloses) :
            LET r == UnquotedCloses[k]
            IN  /\ r.pnl_cents = 0
                /\ r.pnl_pct = 0
                /\ r.exit_params.take_profit_pct > 0 =>
                       r.exit_reason \notin {"take_profit", "trailing_stop", "stop_loss"}


\* ------------------------------------------------------------------------
\* SpecLate: the last minutes of a close game
\* ------------------------------------------------------------------------
LateMaxCycles == 2

\* Eight minutes left with the home team two ahead, then two and a half
\* minutes left with a lead of four; the market trades below the model.
LateSnapshots == {Game(60, 58, 80, 2), Game(64, 60, 25, 2)}
LateQuotes == {Quote(58, 56, 60), Quote(75, 73, 77)}

LatePollStep ==
    /\ orch.cycle_count < LateMaxCycles
    /\ Poll(1, LateMaxCycles, LateSnapshots, LateQuotes)

LateNext ==
    RunStep \/ StartSessionStep \/ LatePollStep \/ FeedStep \/ LoopCheckStep \/ SleepStep
    \/ CaughtStep \/ StopStep

SpecLate == LoopInit /\ [][LateNext]_vars

\* The games a detector may be shown: every clock reading of a game, in
\* tenths of a minute, and leads up to ten points either way; the market at
\* 50 and the model up to 18 cents from it.
LateMinutes == 0..400
LateLeads == (-10)..10
LateEdges == {-18, -8, -5, 5, 8, 18}

\* Some signal of _check_gamma_scalp passes on_signal's remaining-time floor.
GammaScalpPasses ==
    \E m \in LateMinutes, lead \in LateLeads, edge \in LateEdges :
        LET game == Game(60, 60 - lead, m, 2)
            found == CheckGammaScalp(NewStrategyEngine, now, LoopMarket, Quote(50, 49, 51), game,
                                     50 + edge, edge, 50, GameContext(game))
        IN  found # None /\ ~TooLate(ToDict(found[1]))

\* Some signal of _check_closing_line passes on_signal's remaining-time floor.
ClosingLinePasses ==
    \E m \in LateMinutes, lead \in LateLeads, edge \in LateEdges :
        LET game == Game(60, 60 - lead, m, 2)
            found == CheckClosingLine(NewStrategyEngine, now, LoopMarket, Quote(50, 49, 51), game,
                                      50 + edge, edge, 50, GameContext(game))
        IN  found # None /\ ~TooLate(ToDict(found[1]))

\* C39: each late-game detector has a signal that passes the controller's
\* remaining-time floor: not every gamma_scalp signal and not every
\* closing_line signal is rejected by on_signal for the time left.
C39_AsStated == GammaScalpPasses /\ ClosingLinePasses


\* ------------------------------------------------------------------------
\* SpecDrift: sessions whose history moves every tuned threshold
\* ------------------------------------------------------------------------
\* A take profit that had peaked ten points above its exit, and a trailing
\* stop that closed above the take profits.
TookProfitEarly == HistoryTrade("take_profit", 46, 10, <<>>, 100)
Trailed == HistoryTrade("trailing_stop", 48, 10, <<>>, 100)

\* Nine and fourteen trades closed: recovered stops, early take profits and
\* trailing stops; in the longer one the pass at ten trades has run.
DriftHistories ==
    {Repeat(StopRecovered, 3) \o Repeat(TookProfitEarly, 3) \o Repeat(Trailed, 3),
     Repeat(StopRecovered, 4) \o Repeat(TookProfitEarly, 4) \o Repeat(Trailed, 3)
        \o Repeat(TimedOutDown, 3)}

\* tuned_exits.json at start-up: absent, a set next to the caps, and a file
\* edited by hand beyond them.
DriftFiles ==
    {None,
     Some([DEFAULT_EXITS EXCEPT !.stop_loss_pct = 19, !.take_profit_pct = 29,
                                !.trailing_activate_pct = 5]),
     Some([DEFAULT_EXITS EXCEPT !.stop_loss_pct = 25, !.take_profit_pct = 35,
                                !.trailing_activate_pct = 3])}

DriftInit ==
    /\ \E file \in DriftFiles, history \in DriftHistories : InSession(file, history)
    /\ InitStrategyEngine
    /\ NoModelCall

\* One position is closed on top of the history.
DriftCheckStep ==
    /\ ExecutorOnly
    /\ \E prices \in PriceMaps({33, 46}), fills \in FillAnswers :
        /\ \/ FilledAfter(fills) = {}
           \/ \E history \in DriftHistories : Len(closed_trades) = Len(history)
        /\ CheckPositions(prices, fills)

DriftNext == TuneSignalStep \/ TuneModelStep \/ DriftCheckStep \/ TuneTickStep

SpecDrift == DriftInit /\ [][DriftNext]_vars

\* C40: no step lowers stop_loss_pct or take_profit_pct, none raises
\* trailing_activate_pct, and none changes trailing_stop_pct or edge_exit.
C40_OneWayStep ==
    /\ exits'.stop_loss_pct >= exits.stop_loss_pct
    /\ exits'.take_profit_pct >= exits.take_profit_pct
    /\ exits'.trailing_activate_pct <= exits.trailing_activate_pct
    /\ exits'.trailing_stop_pct = exits.trailing_stop_pct
    /\ exits'.edge_exit = exits.edge_exit

C40_OneWay == [][C40_OneWayStep]_vars

\* The pass at the fifteenth close, the second of the session: it has moved
\* each of the three thresholds once more, from the set the fifteenth record
\* holds, itself the defaults moved by the pass at ten.
C40_Witness ==
    /\ Len(closed_trades) = 15
    /\ closed_trades[15].exit_params =
           [DEFAULT_EXITS EXCEPT !.stop_loss_pct = 17, !.take_profit_pct = 18,
                                 !.trailing_activate_pct = 7,
                                 !.time_exit = closed_trades[15].exit_params.time_exit]
    /\ exits.stop_loss_pct = 19
    /\ exits.take_profit_pct = 21
    /\ exits.trailing_activate_pct = 6
    /\ exits.trailing_stop_pct = DEFAULT_EXITS.trailing_stop_pct
    /\ exits.edge_exit = DEFAULT_EXITS.edge_exit

====
